---- MODULE Spec2Model ----
(***************************************************************************)
(* A model of carson-sweet/gmail_emulator. Of the Enron-to-Gmail pipeline, *)
(* src/transformer/enron_transformer.go: the record loader                 *)
(* (LoadEnronEmails), the transformer (TransformDataset and what it        *)
(* calls), main with GenerateTestData, and parseEnronFile, transformEmail  *)
(* and generateSnippet called one at a time. Of the emulator,              *)
(* src/emulator/main.go: the message list endpoint walked by a client, and *)
(* the request log written by handlers that run at once.                   *)
(*                                                                         *)
(* Go strings are modelled as sequences of one-character strings, so that  *)
(* strings.Contains, strings.ToLower, strings.Index, sort.Strings and the  *)
(* regular expressions of the source are computed, not assumed.            *)
(***************************************************************************)
EXTENDS Integers, Sequences, FiniteSets, TLC

(***************************************************************************)
(* Bounds of the model.                                                    *)
(***************************************************************************)
\* the largest record limit passed to LoadEnronEmails
MaxLimit == 2
\* the largest number of entries ioutil.ReadDir returns for one folder
MaxFiles == 2
\* the largest number of records handed to TransformDataset
MaxEmails == 3
\* the most messages of a corpus of the emulator
MaxCorpus == 3
\* the most seconds that pass during a walk of the pages
MaxTicks == 1
\* the length of the longest plain body handed to generateSnippet
MaxBody == 250
\* the connections the emulator serves at once
MaxConnections == 2
\* the most requests the emulator logs, and the most it reports on
MaxRequests == 3

(***************************************************************************)
(* Strings.                                                                *)
(***************************************************************************)
\* The characters of the model in ASCII (byte) order, so that comparing
\* positions in this list is comparing bytes.
Alphabet ==
    << "\t", "\n", "\r", " ", "%", "&", "+", ",", "-", ".", "/",
       "0", "1", "2", "3", "4", "5", "6", "7", "8", "9",
       ":", ";", "<", "=", ">", "@",
       "A", "B", "C", "D", "E", "F", "G", "H", "I", "J", "K", "L", "M",
       "N", "O", "P", "Q", "R", "S", "T", "U", "V", "W", "X", "Y", "Z",
       "_",
       "a", "b", "c", "d", "e", "f", "g", "h", "i", "j", "k", "l", "m",
       "n", "o", "p", "q", "r", "s", "t", "u", "v", "w", "x", "y", "z",
       "|" >>

Chars == { Alphabet[i] : i \in 1..Len(Alphabet) }

Ord[c \in Chars] == CHOOSE i \in 1..Len(Alphabet) : Alphabet[i] = c

UpperLetters ==
    << "A", "B", "C", "D", "E", "F", "G", "H", "I", "J", "K", "L", "M",
       "N", "O", "P", "Q", "R", "S", "T", "U", "V", "W", "X", "Y", "Z" >>

LowerLetters ==
    << "a", "b", "c", "d", "e", "f", "g", "h", "i", "j", "k", "l", "m",
       "n", "o", "p", "q", "r", "s", "t", "u", "v", "w", "x", "y", "z" >>

Upper == { UpperLetters[i] : i \in 1..26 }
Lower == { LowerLetters[i] : i \in 1..26 }
Letters == Upper \cup Lower
Digits == { "0", "1", "2", "3", "4", "5", "6", "7", "8", "9" }
Space == { " ", "\t", "\n", "\r" }

ToLowerCh[c \in Chars] ==
    IF c \in Upper
    THEN LowerLetters[CHOOSE i \in 1..26 : UpperLetters[i] = c]
    ELSE c

ToUpperCh[c \in Chars] ==
    IF c \in Lower
    THEN UpperLetters[CHOOSE i \in 1..26 : LowerLetters[i] = c]
    ELSE c

\* strings.ToLower
ToLower(s) == [i \in 1..Len(s) |-> ToLowerCh[s[i]]]

\* whether sub occurs in s at the 0-based offset i
OccursAt(s, sub, i) ==
    /\ i >= 0
    /\ i + Len(sub) <= Len(s)
    /\ \A k \in 1..Len(sub) : s[i + k] = sub[k]

\* strings.Contains
Contains(s, sub) == \E i \in 0..Len(s) : OccursAt(s, sub, i)

\* strings.Index: the 0-based offset of the first occurrence, or -1
Index(s, sub) ==
    IF Contains(s, sub)
    THEN CHOOSE i \in 0..Len(s) :
            /\ OccursAt(s, sub, i)
            /\ \A j \in 0..(i - 1) : ~OccursAt(s, sub, j)
    ELSE -1

\* strings.HasPrefix
HasPrefix(s, p) == OccursAt(s, p, 0)

\* s[from:] with a 0-based offset
From0(s, from) == SubSeq(s, from + 1, Len(s))

\* s[from:to] with 0-based offsets
Slice(s, from, to) == SubSeq(s, from + 1, to)

RECURSIVE TrimLeft(_)
TrimLeft(s) ==
    IF s # <<>> /\ Head(s) \in Space THEN TrimLeft(Tail(s)) ELSE s

RECURSIVE TrimRight(_)
TrimRight(s) ==
    IF s # <<>> /\ s[Len(s)] \in Space
    THEN TrimRight(SubSeq(s, 1, Len(s) - 1))
    ELSE s

\* strings.TrimSpace
TrimSpace(s) == TrimRight(TrimLeft(s))

\* strings.TrimSuffix
TrimSuffix(s, suf) ==
    IF OccursAt(s, suf, Len(s) - Len(suf))
    THEN SubSeq(s, 1, Len(s) - Len(suf))
    ELSE s

\* strings.Join
RECURSIVE Join(_, _)
Join(list, sep) ==
    IF list = <<>> THEN <<>>
    ELSE IF Len(list) = 1 THEN list[1]
    ELSE list[1] \o sep \o Join(Tail(list), sep)

\* strings.ReplaceAll, for a non-empty old
RECURSIVE ReplaceAll(_, _, _)
ReplaceAll(s, old, new) ==
    IF s = <<>> THEN <<>>
    ELSE IF HasPrefix(s, old)
    THEN new \o ReplaceAll(From0(s, Len(old)), old, new)
    ELSE <<Head(s)>> \o ReplaceAll(Tail(s), old, new)

\* the byte-wise order of Go's string comparison a < b
RECURSIVE LessStr(_, _)
LessStr(a, b) ==
    IF b = <<>> THEN FALSE
    ELSE IF a = <<>> THEN TRUE
    ELSE IF Head(a) = Head(b) THEN LessStr(Tail(a), Tail(b))
    ELSE Ord[Head(a)] < Ord[Head(b)]

\* list with x put before the first element greater than x
RECURSIVE InsertSorted(_, _)
InsertSorted(list, x) ==
    IF list = <<>> THEN <<x>>
    ELSE IF LessStr(x, Head(list)) THEN <<x>> \o list
    ELSE <<Head(list)>> \o InsertSorted(Tail(list), x)

\* sort.Strings: equal strings are indistinguishable, so the result is unique
RECURSIVE SortStrings(_)
SortStrings(list) ==
    IF list = <<>> THEN <<>>
    ELSE InsertSorted(SortStrings(Tail(list)), Head(list))

\* strconv.Atoi succeeds: an optional sign, then one or more decimal digits
AtoiOk(s) ==
    LET body == IF s # <<>> /\ Head(s) \in {"+", "-"} THEN Tail(s) ELSE s
    IN  /\ body # <<>>
        /\ \A i \in 1..Len(body) : body[i] \in Digits

\* the elements of a sequence
Range(f) == { f[i] : i \in DOMAIN f }

\* the folders of a mailbox that LoadEnronEmails reads, lines 144-149, 185
sent_items == <<"s", "e", "n", "t", "_", "i", "t", "e", "m", "s">>
inbox == <<"i", "n", "b", "o", "x">>
discussion_threads ==
    <<"d", "i", "s", "c", "u", "s", "s", "i", "o", "n", "_",
      "t", "h", "r", "e", "a", "d", "s">>
personal == <<"p", "e", "r", "s", "o", "n", "a", "l">>
all_documents ==
    <<"a", "l", "l", "_", "d", "o", "c", "u", "m", "e", "n", "t", "s">>

priorityFolders == << sent_items, inbox, discussion_threads, personal >>

(***************************************************************************)
(* The transformer: helpers that are pure functions of their arguments.    *)
(***************************************************************************)
\* strings.Split(s, sep) for a one-character sep, computed by halves: the
\* last piece of the left half and the first of the right half are one piece
RECURSIVE Split(_, _)
Split(s, sep) ==
    IF Len(s) = 0 THEN << <<>> >>
    ELSE IF Len(s) = 1
    THEN IF s[1] = sep THEN << <<>>, <<>> >> ELSE << s >>
    ELSE LET half == Len(s) \div 2
             left == Split(SubSeq(s, 1, half), sep)
             right == Split(SubSeq(s, half + 1, Len(s)), sep)
         IN  SubSeq(left, 1, Len(left) - 1)
                 \o << left[Len(left)] \o right[1] >> \o Tail(right)

\* strings.Title: the first letter of every word in upper case; a word
\* starts after a character that is no letter, digit or underscore
Title(s) ==
    [i \in 1..Len(s) |->
        IF i = 1 \/ s[i - 1] \notin (Letters \cup Digits \cup {"_"})
        THEN ToUpperCh[s[i]]
        ELSE s[i]]

\* fmt.Sprintf("%d", n) for n >= 0
RECURSIVE Itoa(_)
Itoa(n) ==
    IF n < 10 THEN <<Alphabet[Ord["0"] + n]>>
    ELSE Itoa(n \div 10) \o <<Alphabet[Ord["0"] + (n % 10)]>>

\* fmt.Sprintf("%x", md5.Sum(s))[:16]: the digest is not computed; it is
\* an injective tagging of its input, i.e. the hash is taken collision-free
Md5Hex16(s) == <<"md5/16:">> \o s

\* base64.StdEncoding.EncodeToString: an injective tagging of its input
Base64(s) == <<"base64:">> \o s

\* time.Time.Format(time.RFC1123Z) of a time counted in seconds: an
\* injective rendering of the time
FormatRFC1123Z(sec) == <<"date:">> \o Itoa(sec)

\* generateGmailID as it would be if the digest also covered the identity
\* of the run
generateGmailIDSalted(t, enronMessageID) ==
    Md5Hex16(t.userEmail \o enronMessageID)

\* generateGmailID
generateGmailID(t, enronMessageID) == Md5Hex16(enronMessageID)

\* generateThreadID
generateThreadID(key) == Md5Hex16(<<"t", "h", "r", "e", "a", "d", ":">> \o key)

\* extractEmail
extractEmail(address) ==
    LET idx == Index(address, <<"<">>)
        endIdx == IF idx >= 0 THEN Index(From0(address, idx), <<">">>) ELSE -1
    IN  IF idx >= 0 /\ endIdx > 0
        THEN ToLower(Slice(address, idx + 1, idx + endIdx))
        ELSE IF Contains(address, <<"@">>)
        THEN ToLower(TrimSpace(address))
        ELSE <<>>

\* generateNameFromEmail (strings.Split never returns an empty list)
generateNameFromEmail(email) ==
    LET name0 == Split(email, "@")[1]
        name1 == ReplaceAll(name0, <<".">>, <<" ">>)
        name2 == ReplaceAll(name1, <<"_">>, <<" ">>)
        name3 == ReplaceAll(name2, <<"-">>, <<" ">>)
    IN  Title(name3)

\* extractServiceName
extractServiceName(email) ==
    LET domain == Split(email, "@")[2]
        name == Split(domain, ".")[1]
    IN  Title(name)

\* the regular expression ^(Re:|RE:|Fwd:|FW:|Fw:)\s* of cleanSubjectForThreading
threadingPrefixes == << <<"R", "e", ":">>, <<"R", "E", ":">>, <<"F", "w", "d", ":">>, <<"F", "W", ":">>, <<"F", "w", ":">> >>

\* cleanSubjectForThreading
cleanSubjectForThreading(subject) ==
    LET hits == { i \in 1..Len(threadingPrefixes) :
                      HasPrefix(subject, threadingPrefixes[i]) }
        first == CHOOSE i \in hits : \A j \in hits : i <= j
        cleaned == IF hits = {} THEN subject
                   ELSE TrimLeft(From0(subject, Len(threadingPrefixes[first])))
    IN  ToLower(TrimSpace(cleaned))

\* the thread key of getOrCreateThreadID, lines 517-527
threadKey(enron) ==
    LET subject == cleanSubjectForThreading(enron.Subject)
        sorted == SortStrings(<<enron.From>> \o enron.To)
        participants == IF Len(sorted) > 3 THEN SubSeq(sorted, 1, 3) ELSE sorted
    IN  subject \o <<"|">> \o Join(participants, <<",">>)

\* getOrCreateThreadID as it would be if a new id were derived from the
\* normalized subject alone
getOrCreateThreadIDOfSubject(t, enron) ==
    LET key == threadKey(enron)
        fresh == generateThreadID(cleanSubjectForThreading(enron.Subject))
    IN  IF key \in DOMAIN t.threadCache
        THEN [threadID |-> t.threadCache[key], threadCache |-> t.threadCache]
        ELSE [threadID |-> fresh,
              threadCache |->
                  [k \in DOMAIN t.threadCache \cup {key} |->
                      IF k = key THEN fresh ELSE t.threadCache[k]]]

\* getOrCreateThreadID, lines 529-536: the id and the cache after the call
getOrCreateThreadID(t, enron) ==
    LET key == threadKey(enron)
    IN  IF key \in DOMAIN t.threadCache
        THEN [threadID |-> t.threadCache[key], threadCache |-> t.threadCache]
        ELSE [threadID |-> generateThreadID(key),
              threadCache |->
                  [k \in DOMAIN t.threadCache \cup {key} |->
                      IF k = key THEN generateThreadID(key)
                      ELSE t.threadCache[k]]]

\* the domain of the source organization, line 500
enronDomain == <<"e", "n", "r", "o", "n", ".", "c", "o", "m">>

\* transformEmailAddress
transformEmailAddress(t, enronEmail) ==
    LET cleaned == extractEmail(enronEmail)
        name == generateNameFromEmail(cleaned)
        parts == Split(cleaned, "@")
        domain == IF Contains(cleaned, <<"@">>) /\ parts[2] # enronDomain
                  THEN parts[2]
                  ELSE <<"e", "x", "a", "m", "p", "l", "e", ".", "c", "o", "m">>
    IN  IF Contains(cleaned, t.enronUserName)
        THEN <<"Y", "o", "u">> \o <<" ", "<">> \o t.userEmail \o <<">">>
        ELSE IF cleaned \in DOMAIN t.personaMap
        THEN t.personaMap[cleaned].Name \o <<" ", "<">>
                 \o t.personaMap[cleaned].Email \o <<">">>
        ELSE name \o <<" ", "<">> \o ToLower(name) \o <<"@">> \o domain \o <<">">>

\* transformEmailList
transformEmailList(t, list) ==
    Join([i \in 1..Len(list) |-> transformEmailAddress(t, list[i])], <<",", " ">>)

\* transformHeaders
transformHeaders(t, enron) ==
    << [Name |-> "From", Value |-> transformEmailAddress(t, enron.From)] >>
    \o (IF Len(enron.To) > 0
        THEN << [Name |-> "To", Value |-> transformEmailList(t, enron.To)] >>
        ELSE <<>>)
    \o (IF Len(enron.CC) > 0
        THEN << [Name |-> "Cc", Value |-> transformEmailList(t, enron.CC)] >>
        ELSE <<>>)
    \o << [Name |-> "Subject", Value |-> enron.Subject],
          [Name |-> "Date",
           Value |-> FormatRFC1123Z(enron.Date + t.timeShift)],
          [Name |-> "Message-ID",
           Value |-> <<"<">> \o generateGmailID(t, enron.MessageID)
                         \o <<"@", "m", "a", "i", "l", ".", "g", "m", "a", "i", "l", ".", "c", "o", "m", ">">>] >>

\* fixEncoding. Go ranges over the replacement map in an unspecified order;
\* the order only matters for a text in which one replacement completes the
\* escape of another, and the bodies of the model hold no escape at all.
fixEncoding(text) ==
    LET r1 == ReplaceAll(text, <<"=", "2", "0">>, <<" ">>)
        r2 == ReplaceAll(r1, <<"=", "0", "9">>, <<"\t">>)
        r3 == ReplaceAll(r2, <<"=", "0", "A">>, <<"\n">>)
        r4 == ReplaceAll(r3, <<"=", "0", "D">>, <<"\r">>)
        r5 == ReplaceAll(r4, <<"=", "3", "D">>, <<"=">>)
        r6 == ReplaceAll(r5, <<"&", "a", "m", "p", ";">>, <<"&">>)
        r7 == ReplaceAll(r6, <<"&", "l", "t", ";">>, <<"<">>)
    IN  ReplaceAll(r7, <<"&", "g", "t", ";">>, <<">">>)

\* whether the whole of word matches emailRegex, line 669:
\* \b[A-Za-z0-9._%+-]+@[A-Za-z0-9.-]+\.[A-Z|a-z]{2,}\b
MatchesEmailRegex(word) ==
    \E at \in 1..Len(word) : \E dot \in (at + 1)..Len(word) :
        /\ word[at] = "@"
        /\ word[dot] = "."
        /\ at > 1
        /\ \A i \in 1..(at - 1) :
               word[i] \in Letters \cup Digits \cup {".", "_", "%", "+", "-"}
        /\ dot > at + 1
        /\ \A i \in (at + 1)..(dot - 1) :
               word[i] \in Letters \cup Digits \cup {".", "-"}
        /\ Len(word) - dot >= 2
        /\ \A i \in (dot + 1)..Len(word) : word[i] \in Letters \cup {"|"}

\* the function handed to ReplaceAllStringFunc, lines 671-683
rewriteBodyAddress(t, email) ==
    LET cleaned == ToLower(email)
    IN  IF Contains(cleaned, t.enronUserName) THEN t.userEmail
        ELSE IF cleaned \in DOMAIN t.personaMap
        THEN t.personaMap[cleaned].Email
        ELSE email

\* one word of the body through emailRegex.ReplaceAllStringFunc
rewriteWord(t, word) ==
    IF MatchesEmailRegex(word) THEN rewriteBodyAddress(t, word) ELSE word

\* emailRegex.ReplaceAllStringFunc over a body whose address literals are
\* whole words, i.e. delimited by white space or the ends of the body
RECURSIVE replaceAddresses(_, _, _)
replaceAddresses(t, text, word) ==
    IF text = <<>> THEN rewriteWord(t, word)
    ELSE IF Head(text) \in Space
    THEN rewriteWord(t, word) \o <<Head(text)>>
             \o replaceAddresses(t, Tail(text), <<>>)
    ELSE replaceAddresses(t, Tail(text), Append(word, Head(text)))

\* transformBody
transformBody(t, body) ==
    LET fixed == fixEncoding(body)
        anonymized == replaceAddresses(t, fixed, <<>>)
        renamed == ReplaceAll(anonymized, <<"E", "n", "r", "o", "n">>, <<"T", "e", "c", "h", "C", "o", "r", "p">>)
    IN  ReplaceAll(renamed, <<"E", "N", "R", "O", "N">>, <<"T", "E", "C", "H", "C", "O", "R", "P">>)

(***************************************************************************)
(* The persona assigner: buildPersonaMap and assignPersonas.               *)
(***************************************************************************)
TestPersona(name, email, role, company) ==
    [Name |-> name, Email |-> email, Role |-> role, Company |-> company]

\* the roster of assignPersonas, lines 384-395
personas ==
    << TestPersona(<<"S", "a", "r", "a", "h", " ", "C", "h", "e", "n">>, <<"s", "a", "r", "a", "h", ".", "c", "h", "e", "n", "@", "g", "m", "a", "i", "l", ".", "c", "o", "m">>, "sister", ""),
       TestPersona(<<"D", "a", "v", "i", "d", " ", "K", "u", "m", "a", "r">>, <<"d", "a", "v", "i", "d", ".", "k", "u", "m", "a", "r", "@", "t", "e", "c", "h", "c", "o", "r", "p", ".", "c", "o", "m">>, "manager", "TechCorp"),
       TestPersona(<<"A", "l", "e", "x", " ", "R", "i", "v", "e", "r", "a">>, <<"a", "l", "e", "x", ".", "r", "@", "g", "m", "a", "i", "l", ".", "c", "o", "m">>, "best friend", ""),
       TestPersona(<<"L", "i", "s", "a", " ", "T", "h", "o", "m", "p", "s", "o", "n">>, <<"l", "i", "s", "a", ".", "t", "@", "t", "e", "c", "h", "c", "o", "r", "p", ".", "c", "o", "m">>, "colleague", "TechCorp"),
       TestPersona(<<"M", "o", "m">>, <<"m", "o", "m", ".", "w", "i", "l", "s", "o", "n", "@", "y", "a", "h", "o", "o", ".", "c", "o", "m">>, "family", ""),
       TestPersona(<<"J", "a", "m", "i", "e", " ", "P", "a", "r", "k">>, <<"j", "a", "m", "i", "e", "p", "a", "r", "k", "9", "2", "@", "g", "m", "a", "i", "l", ".", "c", "o", "m">>, "friend", ""),
       TestPersona(<<"M", "i", "c", "h", "a", "e", "l", " ", "C", "h", "e", "n">>, <<"m", ".", "c", "h", "e", "n", "@", "t", "e", "c", "h", "c", "o", "r", "p", ".", "c", "o", "m">>, "colleague", "TechCorp"),
       TestPersona(<<"E", "m", "m", "a", " ", "D", "a", "v", "i", "s">>, <<"e", "m", "m", "a", ".", "d", "a", "v", "i", "s", "@", "g", "m", "a", "i", "l", ".", "c", "o", "m">>, "friend", ""),
       TestPersona(<<"R", "o", "b", "e", "r", "t", " ", "J", "o", "h", "n", "s", "o", "n">>, <<"r", "j", "o", "h", "n", "s", "o", "n", "@", "p", "a", "r", "t", "n", "e", "r", "c", "o", ".", "c", "o", "m">>, "client", "PartnerCo"),
       TestPersona(<<"J", "e", "s", "s", "i", "c", "a", " ", "L", "e", "e">>, <<"j", "l", "e", "e", "@", "t", "e", "c", "h", "c", "o", "r", "p", ".", "c", "o", "m">>, "colleague", "TechCorp") >>

\* serviceEmails of assignPersonas, lines 409-414
serviceEmails ==
    << <<"n", "o", "t", "i", "f", "i", "c", "a", "t", "i", "o", "n", "s", "@", "g", "i", "t", "h", "u", "b", ".", "c", "o", "m">>, <<"n", "o", "-", "r", "e", "p", "l", "y", "@", "l", "i", "n", "k", "e", "d", "i", "n", ".", "c", "o", "m">>,
       <<"u", "n", "i", "t", "e", "d", "@", "u", "n", "i", "t", "e", "d", ".", "c", "o", "m">>, <<"a", "l", "e", "r", "t", "s", "@", "m", "i", "n", "t", ".", "c", "o", "m">> >>

\* the addresses buildPersonaMap counts for one record, lines 359-369:
\* the sender and the To recipients, each occurrence once
countedAddresses(enron) ==
    <<extractEmail(enron.From)>>
        \o [i \in 1..Len(enron.To) |-> extractEmail(enron.To[i])]

\* lines 360 and 366: the address is counted
isCounted(t, addr) == addr # <<>> /\ ~Contains(addr, t.enronUserName)

\* contactFreq after the loop of lines 358-370
countContacts(t, list) ==
    LET occurrences ==
            UNION { { <<i, k>> : k \in { j \in 1..Len(countedAddresses(list[i])) :
                                    isCounted(t, countedAddresses(list[i])[j]) } } :
                    i \in 1..Len(list) }
        addrOf(o) == countedAddresses(list[o[1]])[o[2]]
        keys == { addrOf(o) : o \in occurrences }
    IN  [a \in keys |-> Cardinality({ o \in occurrences : addrOf(o) = a })]

\* lines 372-378: the contacts in an order sort.Slice can leave them in.
\* The slice is filled by ranging over the map contactFreq, whose iteration
\* order Go leaves unspecified, and sorted by count alone: every order with
\* non-increasing counts can result.
contactOrders(freq) ==
    LET n == Cardinality(DOMAIN freq)
    IN  { c \in [1..n -> { [email |-> a, count |-> freq[a]] : a \in DOMAIN freq }] :
              /\ \A i, j \in 1..n : i # j => c[i].email # c[j].email
              /\ \A i \in 1..(n - 1) : c[i].count >= c[i + 1].count }

\* the persona of the contact at the 0-based rank i, lines 397-407
rankedPersona(c, i) ==
    IF i >= Len(personas)
    THEN TestPersona(generateNameFromEmail(c.email),
                     <<"c", "o", "n", "t", "a", "c", "t">> \o Itoa(i) \o <<"@", "e", "x", "a", "m", "p", "l", "e", ".", "c", "o", "m">>,
                     "acquaintance", "")
    ELSE personas[i + 1]

\* assignPersonas: the persona map after the call
assignPersonas(t, contacts) ==
    LET services == { serviceEmails[i] : i \in 1..Len(serviceEmails) }
        ranked == { contacts[i].email : i \in 1..Len(contacts) }
        rank(a) == CHOOSE i \in 1..Len(contacts) : contacts[i].email = a
    IN  [a \in DOMAIN t.personaMap \cup ranked \cup services |->
            IF a \in services
            THEN TestPersona(extractServiceName(a), a, "service", "")
            ELSE IF a \in ranked
            THEN rankedPersona(contacts[rank(a)], rank(a) - 1)
            ELSE t.personaMap[a]]

(***************************************************************************)
(* The records handed to TransformDataset.                                 *)
(***************************************************************************)
EnronEmail(id, date, from, to, cc, subject, body, folder) ==
    [MessageID |-> id, Date |-> date, From |-> from, To |-> to, CC |-> cc,
     BCC |-> <<>>, Subject |-> subject, Body |-> body, XFolder |-> <<>>,
     UserFolder |-> folder]

\* the owner X of the mailbox and the correspondents A, B, C, D
AddrX == <<"k", "a", "m", "@", "e", "n", "r", "o", "n", ".", "c", "o", "m">>
AddrA == <<"a", "l", "@", "e", "n", "r", "o", "n", ".", "c", "o", "m">>
AddrB == <<"b", "o", "@", "e", "n", "r", "o", "n", ".", "c", "o", "m">>
AddrC == <<"c", "y", "@", "e", "n", "r", "o", "n", ".", "c", "o", "m">>
AddrD == <<"d", "i", "@", "e", "n", "r", "o", "n", ".", "c", "o", "m">>

\* (1) sent by X to A and B, subject "Budget"
RecBudget ==
    EnronEmail(<<"<", "1", ">">>, 1, AddrX, <<AddrA, AddrB>>, <<>>, <<"B", "u", "d", "g", "e", "t">>,
               <<"t", "h", "e", " ", "E", "n", "r", "o", "n", " ", "p", "l", "a", "n">>, sent_items)

\* (2) received by X from A, subject "Re: Budget"
RecReply ==
    EnronEmail(<<"<", "2", ">">>, 2, AddrA, <<AddrX>>, <<>>, <<"R", "e", ":", " ", "B", "u", "d", "g", "e", "t">>,
               <<"o", "k">>, inbox)

\* (3) received by X from C, subject "Meeting notes"
RecNotes ==
    EnronEmail(<<"<", "3", ">">>, 3, AddrC, <<AddrX>>, <<>>, <<"M", "e", "e", "t", "i", "n", "g", " ", "n", "o", "t", "e", "s">>,
               <<"n", "o", "t", "e", "s">>, inbox)

\* from B to A with D in copy, D and A named in the body; as old as (2)
RecCopy ==
    EnronEmail(<<"<", "4", ">">>, 2, AddrB, <<AddrA>>, <<AddrD>>, <<"B", "u", "d", "g", "e", "t">>,
               <<"a", "s", "k", " ", "d", "i", "@", "e", "n", "r", "o", "n", ".", "c", "o", "m", " ", "o", "r", " ", "a", "l", "@", "e", "n", "r", "o", "n", ".", "c", "o", "m">>, inbox)

\* from A to A (4 times), B (5 times) and C (3 times): with the sender,
\* A and B occur 5 times each and C 3 times; as old as (3)
RecBulk ==
    EnronEmail(<<"<", "5", ">">>, 3, AddrA,
               << AddrA, AddrA, AddrA, AddrA, AddrB, AddrB, AddrB, AddrB,
                  AddrB, AddrC, AddrC, AddrC >>,
               <<>>, <<"F", "W", ":", " ", "B", "u", "d", "g", "e", "t">>, <<"f", "y", "i">>, all_documents)

\* a second message of A to X on the subject of (2)
RecAgain ==
    EnronEmail(<<"<", "6", ">">>, 4, AddrA, <<AddrX>>, <<>>, <<"B", "u", "d", "g", "e", "t">>,
               <<"w", "r", "i", "t", "e", " ", "t", "o", " ", "K", "A", "M", "@", "e", "n", "r", "o", "n", ".", "c", "o", "m">>, personal)

\* A writing under a display name, the address in upper case
RecNamed ==
    EnronEmail(<<"<", "7", ">">>, 5, <<"A", "l", " ", "<", "A", "L", "@", "E", "N", "R", "O", "N", ".", "C", "O", "M", ">">>, <<AddrX>>, <<>>,
               <<"R", "E", ":", " ", "B", "u", "d", "g", "e", "t">>, <<"o", "k">>, inbox)

\* a forward of A to X with the prefix in lower case, marked urgent
RecLower ==
    EnronEmail(<<"<", "8", ">">>, 6, AddrA, <<AddrX>>, <<>>, <<"f", "w", "d", ":", " ", "B", "u", "d", "g", "e", "t">>,
               <<"u", "r", "g", "e", "n", "t">>, inbox)

RecordPool ==
    << RecBudget, RecReply, RecNotes, RecCopy, RecBulk, RecAgain, RecNamed,
       RecLower >>

\* the inputs of a run: up to MaxEmails records of the pool, no record
\* (hence no Message-ID) twice, as LoadEnronEmails guarantees
Inputs ==
    { [i \in 1..Len(sel) |-> RecordPool[sel[i]]] :
        sel \in { s \in UNION { [1..n -> 1..Len(RecordPool)] : n \in 0..MaxEmails } :
                    \A i \in 1..(Len(s) - 1) : s[i] < s[i + 1] } }

\* the flags --user (up to its first "-") and --test-email of a run, and
\* the time shift NewGmailTransformer derives from the clock, in seconds
TransformerParams ==
    { [enronUserName |-> <<"k", "a", "m">>, userEmail |-> <<"t", "e", "s", "t", "@", "e", "x", "a", "m", "p", "l", "e", ".", "c", "o", "m">>, timeShift |-> 100],
      [enronUserName |-> <<"k", "a", "m">>, userEmail |-> <<"t", "e", "s", "t", "@", "e", "x", "a", "m", "p", "l", "e", ".", "c", "o", "m">>, timeShift |-> 101],
      [enronUserName |-> <<"a", "l">>, userEmail |-> <<"q", "a", "@", "e", "x", "a", "m", "p", "l", "e", ".", "c", "o", "m">>, timeShift |-> 101] }

(***************************************************************************)
(* The record loader, LoadEnronEmails.                                     *)
(***************************************************************************)
VARIABLES
    limit,        \* the limit parameter
    lpc,          \* the loader's position
    folderIdx,    \* index of the current priority folder
    files,        \* the listing ioutil.ReadDir returned for the current folder
    fileIdx,      \* index of the current entry of files
    loaded,       \* emails: the records accumulated so far
    emailsSeen,   \* emailsSeen: the Message-IDs whose entry is true
    firstSeen,    \* history: Message-ID -> folder of the first file parsed with it
    expected      \* history: the records the specification has the scan load

loaderVars ==
    << limit, lpc, folderIdx, files, fileIdx, loaded, emailsSeen, firstSeen,
       expected >>

\* Message-ID header values of the files; the empty one is a file without
\* a Message-ID header
MsgId1 == <<"<", "1", ">">>
MsgId2 == <<"<", "2", ">">>
FileMessageIDs == { MsgId1, MsgId2, <<>> }

\* file names, as ioutil.ReadDir returns them
FileNames == { <<"1", ".">>, <<"2", ".">>, <<"m", "e", "m", "o">> }

\* A directory entry: a regular file that opens and holds a message, an
\* entry that os.Open rejects, or a sub-directory.
DirEntries ==
    { [name |-> n, kind |-> "file", MessageID |-> m] :
          n \in FileNames, m \in FileMessageIDs }
    \cup { [name |-> n, kind |-> k, MessageID |-> <<>>] :
          n \in FileNames, k \in {"unopenable", "dir"} }

\* what ioutil.ReadDir can return: entries sorted by file name, no name twice
Listings ==
    { l \in UNION { [1..n -> DirEntries] : n \in 0..MaxFiles } :
          \A i \in 1..(Len(l) - 1) : LessStr(l[i].name, l[i + 1].name) }

\* os.FileInfo.IsDir
IsDir(file) == file.kind = "dir"

\* parseEnronFile as it would be if a file that does not open gave an
\* empty record instead of an error
parseEnronFileNoError(file) ==
    [err |-> FALSE,
     email |-> [MessageID |-> IF file.kind = "file" THEN file.MessageID
                              ELSE <<>>,
                UserFolder |-> <<>>]]

\* parseEnronFile: os.Open fails, or a record comes back. A directory opens,
\* its first read fails, the scanner stops and the empty record is returned
\* with a nil error.
parseEnronFile(file) ==
    IF file.kind = "unopenable"
    THEN [err |-> TRUE, email |-> [MessageID |-> <<>>, UserFolder |-> <<>>]]
    ELSE [err |-> FALSE,
          email |-> [MessageID |-> IF file.kind = "dir" THEN <<>>
                                   ELSE file.MessageID,
                     UserFolder |-> <<>>]]

\* the history of first occurrences, extended by a record parsed in folder
NoteFirst(email, folder) ==
    IF email.MessageID \in DOMAIN firstSeen
    THEN firstSeen
    ELSE [m \in DOMAIN firstSeen \cup {email.MessageID} |->
            IF m = email.MessageID THEN folder ELSE firstSeen[m]]

\* the history of the records the specification expects, extended by an
\* entry the scan goes past: a regular file that parses and whose Message-ID
\* no earlier such file had is expected, tagged with its folder
NoteEligible(file, folder) ==
    IF /\ file.kind = "file"
       /\ \A i \in 1..Len(expected) : expected[i].MessageID # file.MessageID
    THEN Append(expected, [MessageID |-> file.MessageID, UserFolder |-> folder])
    ELSE expected

\* LoadUnlessSeen as it would be if the id were not marked as seen
LoadWithoutMarking(email, folder) ==
    IF email.MessageID \notin emailsSeen
    THEN /\ emailsSeen' = emailsSeen
         /\ loaded' = Append(loaded, [email EXCEPT !.UserFolder = folder])
    ELSE UNCHANGED << emailsSeen, loaded >>

\* lines 175-179 and 195-199: append the record unless its id was seen
LoadUnlessSeen(email, folder) ==
    IF email.MessageID \notin emailsSeen
    THEN /\ emailsSeen' = emailsSeen \cup {email.MessageID}
         /\ loaded' = Append(loaded, [email EXCEPT !.UserFolder = folder])
    ELSE UNCHANGED << emailsSeen, loaded >>

(***************************************************************************)
(* The transformer: NewGmailTransformer, TransformDataset, transformEmail. *)
(* Two transformers run one after the other on the same input, each on     *)
(* its own copy of the records and with its own maps.                      *)
(***************************************************************************)
VARIABLES
    input,          \* the records handed to TransformDataset
    tpc,            \* the position of each run
    tr,             \* the GmailTransformer of each run
    emails,         \* the emails slice of each run, once sorted
    contactFreq,    \* contactFreq of buildPersonaMap of each run
    idx,            \* the index of the loop of TransformDataset of each run
    gmailMessages   \* gmailMessages of each run

transformerVars ==
    << input, tpc, tr, emails, contactFreq, idx, gmailMessages >>

VARIABLES
    mpc,            \* the position of main
    enronPath,      \* the flag --enron-path
    exitStatus,     \* the exit status of the process, -1 while it runs
    artifacts,      \* the files of the output directory: name -> content
    failed          \* history: the operation the file system failed last

mainVars == << mpc, enronPath, exitStatus, artifacts, failed >>

(***************************************************************************)
(* The emulator: the message list endpoint, handleListMessages.            *)
(***************************************************************************)
VARIABLES
    messageSlice,   \* the messages NewGmailEmulator read, in corpus order
    now,            \* the clock time.Now reads, in seconds
    request,        \* the parameters of the walk and its first pageToken
    pageToken,      \* the pageToken of the next request of the walk
    epc,            \* the position of the client walking the pages
    pages,          \* history: the responses of the walk
    requestLog      \* requestLog of the emulator

emulatorVars ==
    << messageSlice, now, request, pageToken, epc, pages, requestLog >>

(***************************************************************************)
(* One call of a function of the transformer that depends on its           *)
(* arguments alone.                                                        *)
(***************************************************************************)
VARIABLES
    call,           \* the function called and its arguments
    returned,       \* whether the call has returned
    ret             \* the value returned

callVars == << call, returned, ret >>

(***************************************************************************)
(* The emulator serving requests on several connections at once.           *)
(***************************************************************************)
VARIABLES
    hpc,            \* the position of the goroutine of each connection
    sliceHeader,    \* the slice header of requestLog each goroutine read
    handled,        \* history: the requests whose logRequest has returned
    health          \* history: the counts handleHealth has reported

serverVars == << hpc, sliceHeader, handled, health >>

\* strconv.Atoi and strconv.ParseInt of a string AtoiOk accepts
RECURSIVE DigitsValue(_)
DigitsValue(s) ==
    IF s = <<>> THEN 0
    ELSE DigitsValue(SubSeq(s, 1, Len(s) - 1)) * 10
             + (Ord[s[Len(s)]] - Ord["0"])

Atoi(s) ==
    IF Head(s) = "-" THEN 0 - DigitsValue(Tail(s))
    ELSE IF Head(s) = "+" THEN DigitsValue(Tail(s))
    ELSE DigitsValue(s)

\* strings.Fields: the words between runs of white space
RECURSIVE FieldsAcc(_, _)
FieldsAcc(s, cur) ==
    IF s = <<>> THEN (IF cur = <<>> THEN <<>> ELSE <<cur>>)
    ELSE IF Head(s) \in Space
    THEN (IF cur = <<>> THEN <<>> ELSE <<cur>>) \o FieldsAcc(Tail(s), <<>>)
    ELSE FieldsAcc(Tail(s), Append(cur, Head(s)))

Fields(s) == FieldsAcc(s, <<>>)

\* strings.HasSuffix
HasSuffix(s, suf) == OccursAt(s, suf, Len(s) - Len(suf))

\* strings.TrimPrefix
TrimPrefix(s, p) == IF HasPrefix(s, p) THEN From0(s, Len(p)) ELSE s

\* a message of gmail_messages.json, with the fields the list endpoint reads
GmailMessage(id, threadId, labelIds, snippet, internalDate, from, to, subject) ==
    [Id |-> id, ThreadId |-> threadId, LabelIds |-> labelIds,
     Snippet |-> snippet, InternalDate |-> internalDate,
     Payload |-> [Headers |-> << [Name |-> "From", Value |-> from],
                                 [Name |-> "To", Value |-> to],
                                 [Name |-> "Subject", Value |-> subject] >>]]

\* received a day after the epoch
MsgBudget ==
    GmailMessage(<<"a", "1">>, <<"t", "1">>, << <<"U", "N", "R", "E", "A", "D">>, <<"I", "N", "B", "O", "X">> >>, <<"s", "e", "e", " ", "t", "h", "e", " ", "b", "u", "d", "g", "e", "t">>,
                 <<"8", "6", "4", "0", "0", "0", "0", "0">>, <<"A", "l", " ", "<", "a", "l", "@", "e", "x", "a", "m", "p", "l", "e", ".", "c", "o", "m", ">">>, <<"Y", "o", "u", " ", "<", "t", "e", "s", "t", "@", "e", "x", "a", "m", "p", "l", "e", ".", "c", "o", "m", ">">>,
                 <<"B", "u", "d", "g", "e", "t">>)

MsgReply ==
    GmailMessage(<<"b", "2">>, <<"t", "1">>, << <<"U", "N", "R", "E", "A", "D">>, <<"S", "E", "N", "T">> >>, <<"o", "k">>,
                 <<"5", "0", "0", "0", "0", "0", "0", "0">>, <<"Y", "o", "u", " ", "<", "t", "e", "s", "t", "@", "e", "x", "a", "m", "p", "l", "e", ".", "c", "o", "m", ">">>, <<"A", "l", " ", "<", "a", "l", "@", "e", "x", "a", "m", "p", "l", "e", ".", "c", "o", "m", ">">>,
                 <<"R", "e", ":", " ", "B", "u", "d", "g", "e", "t">>)

MsgNotes ==
    GmailMessage(<<"c", "3">>, <<"t", "2">>, << <<"U", "N", "R", "E", "A", "D">>, <<"I", "N", "B", "O", "X">>, <<"I", "M", "P", "O", "R", "T", "A", "N", "T">> >>, <<"n", "o", "t", "e", "s">>,
                 <<"6", "0", "0", "0", "0", "0", "0", "0">>, <<"C", "y", " ", "<", "c", "y", "@", "e", "x", "a", "m", "p", "l", "e", ".", "c", "o", "m", ">">>, <<"Y", "o", "u", " ", "<", "t", "e", "s", "t", "@", "e", "x", "a", "m", "p", "l", "e", ".", "c", "o", "m", ">">>,
                 <<"M", "e", "e", "t", "i", "n", "g", " ", "n", "o", "t", "e", "s">>)

\* a message whose internalDate is no number
MsgUndated ==
    GmailMessage(<<"d", "4">>, <<"t", "3">>, << <<"U", "N", "R", "E", "A", "D">>, <<"I", "N", "B", "O", "X">> >>, <<"b", "u", "d", "g", "e", "t", " ", "a", "g", "a", "i", "n">>,
                 <<"s", "o", "o", "n">>, <<"A", "l", " ", "<", "a", "l", "@", "e", "x", "a", "m", "p", "l", "e", ".", "c", "o", "m", ">">>, <<"Y", "o", "u", " ", "<", "t", "e", "s", "t", "@", "e", "x", "a", "m", "p", "l", "e", ".", "c", "o", "m", ">">>,
                 <<"B", "u", "d", "g", "e", "t">>)

MessagePool == << MsgBudget, MsgReply, MsgNotes, MsgUndated >>

\* the corpora: up to MaxCorpus messages of the pool, in any order, no
\* message (hence no id) twice
Corpora ==
    { [i \in 1..Len(sel) |-> MessagePool[sel[i]]] :
        sel \in { s \in UNION { [1..n -> 1..Len(MessagePool)] : n \in 0..MaxCorpus } :
                    \A i, j \in 1..Len(s) : i # j => s[i] # s[j] } }

\* the pageToken of the first request of a client: none, or one that no
\* response of this list has carried
StartTokens == { <<>>, <<"-", "1">>, <<"2">> }

\* the parameters of a walk: q, labelIds, a maxResults above 0, and the
\* pageToken of its first request
ListRequests ==
    [q : { <<>>, <<"b", "e", "f", "o", "r", "e", ":", "2", "d">>, <<"a", "f", "t", "e", "r", ":", "1", "d">>, <<"s", "u", "b", "j", "e", "c", "t", ":", "b", "u", "d", "g", "e", "t">>, <<"f", "r", "o", "m", ":", "a", "l", " ", "b", "u", "d", "g", "e", "t">> },
     labelIds : { <<>>, <<"I", "N", "B", "O", "X">>, <<"S", "E", "N", "T", ",", "I", "M", "P", "O", "R", "T", "A", "N", "T">> },
     maxResults : { <<"1">>, <<"2">> },
     pageToken : StartTokens]

\* e.messages, line 143: the message of an id, the last of the corpus
\* that has it
emulatorMessages(id) ==
    messageSlice[CHOOSE i \in 1..Len(messageSlice) :
                    /\ messageSlice[i].Id = id
                    /\ \A j \in (i + 1)..Len(messageSlice) :
                           messageSlice[j].Id # id]

\* e.messageList, lines 144-147
messageList ==
    [i \in 1..Len(messageSlice) |->
        [Id |-> messageSlice[i].Id, ThreadId |-> messageSlice[i].ThreadId]]

\* headerContains, lines 601-613: the first header of the name decides
headerContains(msg, headerName, value) ==
    LET headers == msg.Payload.Headers
        hits == { k \in 1..Len(headers) : headers[k].Name = headerName }
    IN  /\ hits # {}
        /\ Contains(ToLower(headers[CHOOSE k \in hits : \A j \in hits : k <= j].Value),
                    ToLower(value))

\* getMessageTime, lines 615-620, in seconds
getMessageTime(msg) ==
    IF AtoiOk(msg.InternalDate) THEN Atoi(msg.InternalDate) \div 1000 ELSE now

\* parseQueryDate, lines 622-644. The three layouts of lines 624-634 need
\* "/" or "-" between groups of digits, which no date of ListRequests has;
\* what is left is the relative form of lines 637-641.
parseQueryDate(dateStr) ==
    IF /\ HasSuffix(dateStr, <<"d">>)
       /\ AtoiOk(TrimSuffix(dateStr, <<"d">>))
    THEN [err |-> FALSE,
          time |-> now - Atoi(TrimSuffix(dateStr, <<"d">>)) * 86400]
    ELSE [err |-> TRUE, time |-> 0]

\* one part of the query, lines 553-593
matchesPart(msg, part) ==
    IF HasPrefix(part, <<"f", "r", "o", "m", ":">>)
    THEN headerContains(msg, "From", TrimPrefix(part, <<"f", "r", "o", "m", ":">>))
    ELSE IF HasPrefix(part, <<"t", "o", ":">>)
    THEN headerContains(msg, "To", TrimPrefix(part, <<"t", "o", ":">>))
    ELSE IF HasPrefix(part, <<"s", "u", "b", "j", "e", "c", "t", ":">>)
    THEN headerContains(msg, "Subject", TrimPrefix(part, <<"s", "u", "b", "j", "e", "c", "t", ":">>))
    ELSE IF HasPrefix(part, <<"a", "f", "t", "e", "r", ":">>)
    THEN LET after == parseQueryDate(TrimPrefix(part, <<"a", "f", "t", "e", "r", ":">>))
         IN  after.err \/ ~(getMessageTime(msg) < after.time)
    ELSE IF HasPrefix(part, <<"b", "e", "f", "o", "r", "e", ":">>)
    THEN LET before == parseQueryDate(TrimPrefix(part, <<"b", "e", "f", "o", "r", "e", ":">>))
         IN  before.err \/ ~(getMessageTime(msg) > before.time)
    ELSE \/ headerContains(msg, "Subject", part)
         \/ Contains(ToLower(msg.Snippet), part)

\* matchesQuery, lines 546-599
matchesQuery(msg, query) ==
    LET parts == Fields(ToLower(query))
    IN  \A k \in 1..Len(parts) : matchesPart(msg, parts[k])

\* filterMessages, lines 504-544
filterMessages(query, labelIds) ==
    LET labels == IF labelIds # <<>> THEN Split(labelIds, ",") ELSE <<>>
        Keeps(ref) ==
            LET msg == emulatorMessages(ref.Id)
            IN  /\ Len(labels) > 0 =>
                       \E k \in 1..Len(labels) : labels[k] \in Range(msg.LabelIds)
                /\ query # <<>> => matchesQuery(msg, query)
    IN  SelectSeq(messageList, Keeps)

EmulatorIdle ==
    /\ messageSlice = <<>>
    /\ now = 0
    /\ request = [q |-> <<>>, labelIds |-> <<>>, maxResults |-> <<>>,
                  pageToken |-> <<>>]
    /\ pageToken = <<>>
    /\ epc = "idle"
    /\ pages = <<>>
    /\ requestLog = <<>>

CallIdle ==
    /\ call = <<>>
    /\ returned = FALSE
    /\ ret = <<>>

ServerIdle ==
    /\ hpc = <<>>
    /\ sliceHeader = <<>>
    /\ handled = 0
    /\ health = <<>>

vars ==
    << loaderVars, transformerVars, mainVars, emulatorVars, callVars,
       serverVars >>


Runs == {1, 2}

\* a GmailTransformer before NewGmailTransformer has filled it in
noTransformer ==
    [enronUserName |-> <<>>, userEmail |-> <<>>, timeShift |-> 0,
     threadCache |-> <<>>, personaMap |-> <<>>, messageIDMap |-> <<>>,
     stats |-> [TotalProcessed |-> 0, TotalTransformed |-> 0, Errors |-> <<>>,
                PersonaMap |-> <<>>, ThreadCount |-> 0]]

\* sortedByDate as it would be if the records were left in any order
sortedByDateUnsorted(list) ==
    LET n == Len(list)
    IN  { [i \in 1..n |-> list[p[i]]] :
            p \in { q \in [1..n -> 1..n] :
                      \A i, j \in 1..n : i # j => q[i] # q[j] } }

\* sort.Slice by Date, lines 328-330: the sort is not stable, so records of
\* one date can end in either order
sortedByDate(list) ==
    LET n == Len(list)
    IN  { [i \in 1..n |-> list[p[i]]] :
            p \in { q \in [1..n -> 1..n] :
                      /\ \A i, j \in 1..n : i # j => q[i] # q[j]
                      /\ \A i \in 1..(n - 1) :
                             ~(list[q[i + 1]].Date < list[q[i]].Date) } }

\* min, lines 754-759
min(a, b) == IF a < b THEN a ELSE b

\* some pattern of the list occurs in the text
ContainsAny(text, patterns) ==
    \E i \in 1..Len(patterns) : Contains(text, patterns[i])

\* isImportant, lines 582-605
importantPatterns ==
    << <<"u", "r", "g", "e", "n", "t">>, <<"a", "s", "a", "p">>, <<"i", "m", "p", "o", "r", "t", "a", "n", "t">>, <<"c", "r", "i", "t", "i", "c", "a", "l">>,
       <<"a", "c", "t", "i", "o", "n", " ", "r", "e", "q", "u", "i", "r", "e", "d">>, <<"d", "e", "a", "d", "l", "i", "n", "e">>, <<"i", "m", "m", "e", "d", "i", "a", "t", "e">>,
       <<"c", "o", "n", "f", "i", "d", "e", "n", "t", "i", "a", "l">>, <<"b", "o", "a", "r", "d", " ", "m", "e", "e", "t", "i", "n", "g">>, <<"e", "x", "e", "c", "u", "t", "i", "v", "e">> >>

isImportant(enron) ==
    LET subject == ToLower(enron.Subject)
        body == ToLower(enron.Body)
    IN  \/ \E i \in 1..Len(importantPatterns) :
               \/ Contains(subject, importantPatterns[i])
               \/ Contains(Slice(body, 0, min(200, Len(body))),
                           importantPatterns[i])
        \/ Contains(enron.From, <<"g", "i", "b", "n", "e", "r">>)
        \/ Contains(enron.From, <<"b", "u", "y">>)
        \/ Contains(enron.From, <<"l", "a", "y">>)

\* isPromotional, lines 607-622
promotionalIndicators ==
    << <<"u", "n", "s", "u", "b", "s", "c", "r", "i", "b", "e">>, <<"c", "l", "i", "c", "k", " ", "h", "e", "r", "e">>, <<"s", "p", "e", "c", "i", "a", "l", " ", "o", "f", "f", "e", "r">>,
       <<"d", "e", "a", "l">>, <<"d", "i", "s", "c", "o", "u", "n", "t">>, <<"s", "a", "l", "e">>, <<"f", "r", "e", "e", " ", "s", "h", "i", "p", "p", "i", "n", "g">>,
       <<"a", "c", "t", " ", "n", "o", "w">>, <<"l", "i", "m", "i", "t", "e", "d", " ", "t", "i", "m", "e">> >>

isPromotional(enron) ==
    ContainsAny(ToLower(enron.Subject \o <<" ">> \o enron.Body),
                promotionalIndicators)

\* isAutomated, lines 624-640
automatedPatterns ==
    << <<"n", "o", "-", "r", "e", "p", "l", "y">>, <<"n", "o", "r", "e", "p", "l", "y">>, <<"d", "o", "n", "o", "t", "r", "e", "p", "l", "y">>,
       <<"n", "o", "t", "i", "f", "i", "c", "a", "t", "i", "o", "n">>, <<"a", "l", "e", "r", "t">>, <<"s", "y", "s", "t", "e", "m">>,
       <<"a", "u", "t", "o", "m", "a", "t", "e", "d">>, <<"m", "a", "i", "l", "m", "a", "n">>, <<"l", "i", "s", "t", "s", "e", "r", "v">> >>

isAutomated(enron) == ContainsAny(ToLower(enron.From), automatedPatterns)

\* the folder labels as they would be if every case that applies added its
\* label
folderLabelsOfEveryCase(folder) ==
    (IF Contains(folder, <<"t", "r", "a", "s", "h">>) \/ Contains(folder, <<"d", "e", "l", "e", "t", "e", "d">>)
     THEN << <<"T", "R", "A", "S", "H">> >> ELSE <<>>)
    \o (IF Contains(folder, <<"p", "e", "r", "s", "o", "n", "a", "l">>)
        THEN << <<"C", "A", "T", "E", "G", "O", "R", "Y", "_", "P", "E", "R", "S", "O", "N", "A", "L">> >> ELSE <<>>)
    \o (IF Contains(folder, <<"t", "r", "a", "v", "e", "l">>)
        THEN << <<"L", "a", "b", "e", "l", "_", "T", "r", "a", "v", "e", "l">> >> ELSE <<>>)
    \o (IF Contains(folder, <<"c", "o", "n", "f", "e", "r", "e", "n", "c", "e", "s">>) \/ Contains(folder, <<"m", "e", "e", "t", "i", "n", "g", "s">>)
        THEN << <<"L", "a", "b", "e", "l", "_", "M", "e", "e", "t", "i", "n", "g", "s">> >> ELSE <<>>)

\* the label of the folder, lines 557-568: the first case that applies
folderLabels(folder) ==
    IF Contains(folder, <<"t", "r", "a", "s", "h">>) \/ Contains(folder, <<"d", "e", "l", "e", "t", "e", "d">>)
    THEN << <<"T", "R", "A", "S", "H">> >>
    ELSE IF Contains(folder, <<"p", "e", "r", "s", "o", "n", "a", "l">>)
    THEN << <<"C", "A", "T", "E", "G", "O", "R", "Y", "_", "P", "E", "R", "S", "O", "N", "A", "L">> >>
    ELSE IF Contains(folder, <<"t", "r", "a", "v", "e", "l">>)
    THEN << <<"L", "a", "b", "e", "l", "_", "T", "r", "a", "v", "e", "l">> >>
    ELSE IF Contains(folder, <<"c", "o", "n", "f", "e", "r", "e", "n", "c", "e", "s">>) \/ Contains(folder, <<"m", "e", "e", "t", "i", "n", "g", "s">>)
    THEN << <<"L", "a", "b", "e", "l", "_", "M", "e", "e", "t", "i", "n", "g", "s">> >>
    ELSE <<>>

\* the labels of lines 570-577 as they would be if a message found
\* important were given no category
contentLabelsImportantFirst(enron) ==
    IF isImportant(enron) THEN << <<"I", "M", "P", "O", "R", "T", "A", "N", "T">> >>
    ELSE IF isPromotional(enron) THEN << <<"C", "A", "T", "E", "G", "O", "R", "Y", "_", "P", "R", "O", "M", "O", "T", "I", "O", "N", "S">> >>
    ELSE IF isAutomated(enron) THEN << <<"C", "A", "T", "E", "G", "O", "R", "Y", "_", "U", "P", "D", "A", "T", "E", "S">> >>
    ELSE <<>>

\* the labels of lines 570-577
contentLabels(enron) ==
    (IF isImportant(enron) THEN << <<"I", "M", "P", "O", "R", "T", "A", "N", "T">> >> ELSE <<>>)
    \o (IF isPromotional(enron) THEN << <<"C", "A", "T", "E", "G", "O", "R", "Y", "_", "P", "R", "O", "M", "O", "T", "I", "O", "N", "S">> >>
        ELSE IF isAutomated(enron) THEN << <<"C", "A", "T", "E", "G", "O", "R", "Y", "_", "U", "P", "D", "A", "T", "E", "S">> >>
        ELSE <<>>)

\* the regular expression \s+ of line 644, every match replaced by a space,
\* computed by halves: a match that spans both halves is one match
RECURSIVE CollapseSpace(_)
CollapseSpace(s) ==
    IF Len(s) = 0 THEN <<>>
    ELSE IF Len(s) = 1 THEN IF s[1] \in Space THEN <<" ">> ELSE s
    ELSE LET half == Len(s) \div 2
             left == CollapseSpace(SubSeq(s, 1, half))
             right == CollapseSpace(SubSeq(s, half + 1, Len(s)))
         IN  IF left[Len(left)] = " " /\ right[1] = " "
             THEN left \o Tail(right)
             ELSE left \o right

\* the marker of a forwarded or answered message, line 650
originalMessage == <<"-", "-", "-", "-", "-", "O", "r", "i", "g", "i", "n", "a", "l", " ", "M", "e", "s", "s", "a", "g", "e", "-", "-", "-", "-", "-">>

\* the length at which a snippet is cut, lines 654 and 659
snippetLimit == 100

\* the test of line 650
isQuoted(line) == HasPrefix(line, <<">">>) \/ Contains(line, originalMessage)

\* the loop of lines 649-657 from the line at the head of lines on
RECURSIVE snippetOfLines(_, _)
snippetOfLines(lines, snippet) ==
    IF lines = <<>> \/ isQuoted(Head(lines)) THEN snippet
    ELSE LET longer == snippet \o Head(lines) \o <<" ">>
         IN  IF Len(longer) > snippetLimit THEN longer
             ELSE snippetOfLines(Tail(lines), longer)

\* generateSnippet, lines 642-664
generateSnippet(t, body) ==
    LET cleaned == CollapseSpace(TrimSpace(body))
        lines == Split(cleaned, "\n")
        snippet == snippetOfLines(lines, <<>>)
    IN  TrimSpace(IF Len(snippet) > snippetLimit
                  THEN Slice(snippet, 0, snippetLimit - 3) \o <<".", ".", ".">>
                  ELSE snippet)

\* inferLabels as it would be if a record of the owner were also filed
\* in the inbox
inferLabelsSentAndInbox(t, enron) ==
    << <<"U", "N", "R", "E", "A", "D">> >>
    \o (IF Contains(enron.From, t.enronUserName)
        THEN << <<"S", "E", "N", "T">>, <<"I", "N", "B", "O", "X">> >> ELSE << <<"I", "N", "B", "O", "X">> >>)
    \o folderLabels(ToLower(enron.UserFolder))
    \o contentLabels(enron)

\* inferLabels, lines 547-580
inferLabels(t, enron) ==
    << <<"U", "N", "R", "E", "A", "D">> >>
    \o (IF Contains(enron.From, t.enronUserName)
        THEN << <<"S", "E", "N", "T">> >> ELSE << <<"I", "N", "B", "O", "X">> >>)
    \o folderLabels(ToLower(enron.UserFolder))
    \o contentLabels(enron)

\* transformEmail: the message, and the maps of the transformer after it
transformEmail(t, enron) ==
    LET gmailID == generateGmailID(t, enron.MessageID)
        headers == transformHeaders(t, enron)
        thread == getOrCreateThreadID(t, enron)
        body == transformBody(t, enron.Body)
        shiftedDate == enron.Date + t.timeShift
    IN  [gmail |->
             [Id |-> gmailID,
              ThreadId |-> thread.threadID,
              LabelIds |-> inferLabels(t, enron),
              Snippet |-> generateSnippet(t, body),
              HistoryId |-> Itoa(shiftedDate),
              InternalDate |-> Itoa(shiftedDate * 1000),
              SizeEstimate |-> Len(enron.Body) + 512,
              Payload |->
                  [PartId |-> "", MimeType |-> "text/plain",
                   Headers |-> headers,
                   Body |-> [Size |-> Len(body), Data |-> Base64(body)]]],
         threadCache |-> thread.threadCache,
         messageIDMap |->
             [m \in DOMAIN t.messageIDMap \cup {enron.MessageID} |->
                 IF m = enron.MessageID THEN gmailID ELSE t.messageIDMap[m]]]

(***************************************************************************)
(* parseEnronFile on the lines of a file that opened.                      *)
(***************************************************************************)
\* the record of line 214, no header applied yet
emptyEmail ==
    [MessageID |-> <<>>, From |-> <<>>, To |-> <<>>, CC |-> <<>>,
     BCC |-> <<>>, Subject |-> <<>>, XFrom |-> <<>>, XTo |-> <<>>,
     XCC |-> <<>>, XBCC |-> <<>>, XFolder |-> <<>>, XOrigin |-> <<>>,
     XFileName |-> <<>>, Body |-> <<>>, UserFolder |-> <<>>]

\* cleanEnronAddress, lines 306-311
cleanEnronAddress(addr) ==
    LET at == Index(addr, <<"<", "/", "O", "=">>)
    IN  IF at > 0 THEN TrimSpace(Slice(addr, 0, at)) ELSE addr

\* parseRecipientList, lines 313-323
parseRecipientList(value) ==
    LET parts == Split(value, ",")
        cleaned == [i \in 1..Len(parts) |-> TrimSpace(parts[i])]
    IN  SelectSeq(cleaned, LAMBDA c : c # <<>>)

\* processHeader, lines 256-287. The case of the Date header is left out:
\* no file of the model carries one.
processHeader(email, header, value) ==
    CASE header = <<"M", "e", "s", "s", "a", "g", "e", "-", "I", "D">> -> [email EXCEPT !.MessageID = value]
      [] header = <<"F", "r", "o", "m">> -> [email EXCEPT !.From = value]
      [] header = <<"T", "o">> -> [email EXCEPT !.To = parseRecipientList(value)]
      [] header = <<"C", "c">> -> [email EXCEPT !.CC = parseRecipientList(value)]
      [] header = <<"B", "c", "c">> -> [email EXCEPT !.BCC = parseRecipientList(value)]
      [] header = <<"S", "u", "b", "j", "e", "c", "t">> -> [email EXCEPT !.Subject = value]
      [] header = <<"X", "-", "F", "r", "o", "m">> -> [email EXCEPT !.XFrom = cleanEnronAddress(value)]
      [] header = <<"X", "-", "T", "o">> -> [email EXCEPT !.XTo = value]
      [] header = <<"X", "-", "c", "c">> -> [email EXCEPT !.XCC = value]
      [] header = <<"X", "-", "b", "c", "c">> -> [email EXCEPT !.XBCC = value]
      [] header = <<"X", "-", "F", "o", "l", "d", "e", "r">> -> [email EXCEPT !.XFolder = value]
      [] header = <<"X", "-", "O", "r", "i", "g", "i", "n">> -> [email EXCEPT !.XOrigin = value]
      [] header = <<"X", "-", "F", "i", "l", "e", "N", "a", "m", "e">> -> [email EXCEPT !.XFileName = value]
      [] OTHER -> email

\* lines 227-229 and 237-239: the header collected so far is applied, if
\* there is one; applied is the history of the calls of processHeader
flushHeader(st) ==
    IF st.currentHeader # <<>>
    THEN [st EXCEPT
            !.email = processHeader(@, st.currentHeader, st.currentValue),
            !.applied = Append(@, [header |-> st.currentHeader,
                                   value |-> st.currentValue])]
    ELSE st

\* lines 223-250: one line of the file
scanLine(st, line) ==
    IF st.inHeaders
    THEN IF line = <<>>
         THEN [flushHeader(st) EXCEPT !.inHeaders = FALSE]
         ELSE IF HasPrefix(line, <<" ">>) \/ HasPrefix(line, <<"\t">>)
         THEN [st EXCEPT !.currentValue = @ \o <<" ">> \o TrimSpace(line)]
         ELSE LET flushed == flushHeader(st)
                  colon == Index(line, <<":">>)
              IN  IF colon >= 0
                  THEN [flushed EXCEPT
                          !.currentHeader = TrimSpace(Slice(line, 0, colon)),
                          !.currentValue = TrimSpace(From0(line, colon + 1))]
                  ELSE flushed
    ELSE [st EXCEPT !.body = @ \o line \o <<"\n">>]

RECURSIVE scanLines(_, _)
scanLines(st, lines) ==
    IF lines = <<>> THEN st
    ELSE scanLines(scanLine(st, Head(lines)), Tail(lines))

\* parseEnronFile, lines 214-253, on the lines the scanner yields: the
\* record, and the history of the calls of processHeader
parseLines(lines) ==
    LET st == scanLines([email |-> emptyEmail, inHeaders |-> TRUE,
                         currentHeader |-> <<>>, currentValue |-> <<>>,
                         body |-> <<>>, applied |-> <<>>], lines)
    IN  [email |-> [st.email EXCEPT !.Body = st.body],
         applied |-> st.applied]

(***************************************************************************)
(* The calls of transformEmail, generateSnippet and parseEnronFile made    *)
(* one at a time.                                                          *)
(***************************************************************************)
\* transformers as NewGmailTransformer leaves them
CallTransformers ==
    { [noTransformer EXCEPT !.enronUserName = p.enronUserName,
                            !.userEmail = p.userEmail,
                            !.timeShift = p.timeShift] :
          p \in TransformerParams }

\* senders: the owner, the owner in upper case, a correspondent whose
\* display name holds the owner fragment, a correspondent, a mailing list
\* and a correspondent writing from the address of the owner in upper case
CallSenders ==
    { AddrX, <<"K", "A", "M", "@", "e", "n", "r", "o", "n", ".", "c", "o", "m">>, <<"k", "a", "m", " ", "s", "m", "i", "t", "h", " ", "<", "k", "s", "@", "e", "n", "r", "o", "n", ".", "c", "o", "m", ">">>, AddrA,
      <<"a", "l", "e", "r", "t", "s", "@", "l", "i", "s", "t", "s", ".", "c", "o", "m">>, <<"A", "l", " ", "<", "K", "A", "M", "@", "E", "N", "R", "O", "N", ".", "C", "O", "M", ">">> }

\* folder names
CallFolders ==
    { <<"t", "r", "a", "s", "h", "/", "2", "0", "0", "3">>, <<"p", "e", "r", "s", "o", "n", "a", "l", "/", "t", "r", "a", "s", "h">>, <<"P", "e", "r", "s", "o", "n", "a", "l">>, <<"d", "e", "l", "e", "t", "e", "d", "_", "i", "t", "e", "m", "s">>,
      <<"t", "r", "a", "v", "e", "l">>, <<"p", "e", "r", "s", "o", "n", "a", "l", "_", "t", "r", "a", "v", "e", "l">>, <<"c", "o", "n", "f", "e", "r", "e", "n", "c", "e", "s">>, <<"m", "e", "e", "t", "i", "n", "g", "s">>, inbox }

\* subjects: plain, important, promotional, both
CallSubjects ==
    { <<"B", "u", "d", "g", "e", "t">>, <<"u", "r", "g", "e", "n", "t">>, <<"s", "a", "l", "e">>, <<"u", "r", "g", "e", "n", "t", " ", "s", "a", "l", "e">> }

\* a text of n characters in words of four letters, no space at its end
Filler(n) == [i \in 1..n |-> IF i % 5 = 0 /\ i < n THEN " " ELSE "a"]

\* bodies: plain text around the length at which a snippet is cut, text
\* with runs of white space, and text followed by or starting with a
\* quoted message
CallBodies ==
    { Filler(n) : n \in { 1, snippetLimit - 3, snippetLimit - 1, snippetLimit,
                          snippetLimit + 1, MaxBody } }
    \cup { <<" ", " ", "a", " ", "\n", "\n", " ", "b", "\t", " ", "c", " ", " ">>,
           Filler(20) \o <<"\n", ">", " ", "o", "l", "d", " ", "t", "e", "x", "t">>,
           Filler(20) \o <<"\n", "\n">> \o originalMessage \o <<"\n", "F", "r", "o", "m", ":", " ", "a", "l">>,
           <<">", " ", "o", "l", "d", " ", "t", "e", "x", "t">>,
           Filler(snippetLimit + 20) \o <<"\n", ">", " ", "o", "l", "d", " ", "t", "e", "x", "t">> }

\* the header lines a file starts with
CallHeaderBlocks ==
    { << <<"M", "e", "s", "s", "a", "g", "e", "-", "I", "D", ":", " ", "<", "1", ">">>, <<"F", "r", "o", "m", ":", " ", "k", "a", "m", "@", "e", "n", "r", "o", "n", ".", "c", "o", "m">>, <<"S", "u", "b", "j", "e", "c", "t", ":", " ", "B", "u", "d", "g", "e", "t">> >>,
      << <<"M", "e", "s", "s", "a", "g", "e", "-", "I", "D", ":", " ", "<", "1", ">">>, <<"T", "o", ":", " ", "a", "l", "@", "e", "n", "r", "o", "n", ".", "c", "o", "m", ",">>, <<"\t", "b", "o", "@", "e", "n", "r", "o", "n", ".", "c", "o", "m">>,
         <<"X", "-", "F", "o", "l", "d", "e", "r", ":", " ", "t", "r", "a", "s", "h">> >>,
      << <<"M", "e", "s", "s", "a", "g", "e", "-", "I", "D", ":", " ", "<", "1", ">">>, <<"m", "e", "m", "o">>, <<"S", "u", "b", "j", "e", "c", "t", ":", " ", "B", "u", "d", "g", "e", "t">> >>,
      << <<"S", "u", "b", "j", "e", "c", "t", ":", " ", "B", "u", "d", "g", "e", "t">>, <<"m", "e", "m", "o">>, <<" ", "m", "o", "r", "e">>, <<"F", "r", "o", "m", ":", " ", "k", "a", "m", "@", "e", "n", "r", "o", "n", ".", "c", "o", "m">> >>,
      << <<"X", "-", "F", "r", "o", "m", ":", " ", "A", "l", " ", "<", "/", "O", "=", "E", "N", "R", "O", "N", ">">>, <<"X", "-", "O", "r", "i", "g", "i", "n", ":", " ", "k", "a", "m">> >>,
      << >> }

\* what follows the header lines: nothing, an empty line, or an empty line
\* and a body of one or two lines
CallFileEnds ==
    { << >>, << <<>> >>, << <<>>, <<"o", "k">> >>, << <<>>, <<"o", "k">>, <<"A", "l", ":", " ", "b", "y", "e">> >> }

Call(fn, t, enron, body, lines) ==
    [fn |-> fn, t |-> t, enron |-> enron, body |-> body, lines |-> lines]

Calls ==
    { Call("transformEmail", t,
           EnronEmail(<<"<", "1", ">">>, 1, from, <<AddrB>>, <<>>, subject, <<"o", "k">>, folder),
           <<>>, <<>>) :
          t \in CallTransformers, from \in CallSenders,
          subject \in CallSubjects, folder \in CallFolders }
    \cup { Call("generateSnippet", noTransformer, emptyEmail, body, <<>>) :
               body \in CallBodies }
    \cup { Call("parseEnronFile", noTransformer, emptyEmail, <<>>, head \o end) :
               head \in CallHeaderBlocks, end \in CallFileEnds }

(***************************************************************************)
(* The program: main and GenerateTestData.                                 *)
(***************************************************************************)
\* the names of the four artifacts, lines 781, 804, 824 and 903
messagesFile == <<"g", "m", "a", "i", "l", "_", "m", "e", "s", "s", "a", "g", "e", "s", ".", "j", "s", "o", "n">>
listFile == <<"l", "i", "s", "t", "_", "m", "e", "s", "s", "a", "g", "e", "s", "_", "r", "e", "s", "p", "o", "n", "s", "e", ".", "j", "s", "o", "n">>
metaFile == <<"t", "e", "s", "t", "_", "m", "e", "t", "a", "d", "a", "t", "a", ".", "j", "s", "o", "n">>
statsFile == <<"t", "r", "a", "n", "s", "f", "o", "r", "m", "_", "s", "t", "a", "t", "s", ".", "j", "s", "o", "n">>

\* the operations of the run that the file system can fail: os.MkdirAll of
\* line 776 and the four ioutil.WriteFile of lines 786, 809, 829 and 905
WriteOperations ==
    << <<"M", "k", "d", "i", "r", "A", "l", "l">>, messagesFile, listFile, metaFile, statsFile >>

\* the values of the flag --enron-path: not given, or a path
EnronPaths == { <<>>, <<"m", "a", "i", "l", "d", "i", "r">> }

\* the other fields parseEnronFile and processHeader fill in from a file,
\* by the Message-ID of the file; a file without headers gives a record of
\* empty fields and the zero date. The files of the first two ids carry an
\* X-Folder header, which processHeader stores in XFolder (line 280).
FileRecord(MessageID) ==
    IF MessageID = MsgId1
    THEN [RecBudget EXCEPT !.MessageID = MessageID,
                           !.XFolder = <<"k", "a", "m", "/", "t", "r", "a", "v", "e", "l">>]
    ELSE IF MessageID = MsgId2
    THEN [RecCopy EXCEPT !.MessageID = MessageID,
                         !.XFolder = <<"k", "a", "m", "/", "t", "r", "a", "s", "h">>]
    ELSE EnronEmail(MessageID, 0, <<>>, <<>>, <<>>, <<>>, <<>>, <<>>)

\* getLabelDistribution, lines 836-844
getLabelDistribution(messages) ==
    LET labels == UNION { Range(messages[i].LabelIds) : i \in 1..Len(messages) }
    IN  [l \in labels |->
            Cardinality(UNION { { << i, k >> :
                                    k \in { j \in 1..Len(messages[i].LabelIds) :
                                              messages[i].LabelIds[j] = l } } :
                                i \in 1..Len(messages) })]

\* getThreadCount, lines 846-852
getThreadCount(messages) ==
    Cardinality({ messages[i].ThreadId : i \in 1..Len(messages) })

\* the list response of lines 791-802
listResponse(messages) ==
    [Messages |-> [i \in 1..Len(messages) |->
                      [Id |-> messages[i].Id, ThreadId |-> messages[i].ThreadId]],
     ResultSizeEstimate |-> Len(messages)]

\* the index expressions of lines 817-818 are in range: there is a first
\* message, and it and the last one have a header at index 4
metadataIndexable(messages) ==
    /\ Len(messages) > 0
    /\ Len(messages[1].Payload.Headers) > 4
    /\ Len(messages[Len(messages)].Payload.Headers) > 4

\* the metadata of lines 814-822; Headers[4] is the fifth header
metadata(messages) ==
    [totalMessages |-> Len(messages),
     dateRange |->
         [start |-> messages[1].Payload.Headers[5].Value,
          end |-> messages[Len(messages)].Payload.Headers[5].Value],
     labelDistribution |-> getLabelDistribution(messages),
     threadCount |-> getThreadCount(messages)]

\* the files of the output directory, with one more
WithArtifact(files0, name, content) ==
    [n \in DOMAIN files0 \cup {name} |->
        IF n = name THEN content ELSE files0[n]]

MainIdle ==
    /\ mpc = "idle"
    /\ enronPath = <<>>
    /\ exitStatus = -1
    /\ artifacts = <<>>
    /\ failed = <<>>

TransformerIdle ==
    /\ input = <<>>
    /\ tpc = [r \in Runs |-> "idle"]
    /\ tr = [r \in Runs |-> noTransformer]
    /\ emails = [r \in Runs |-> <<>>]
    /\ contactFreq = [r \in Runs |-> <<>>]
    /\ idx = [r \in Runs |-> 1]
    /\ gmailMessages = [r \in Runs |-> <<>>]

LoaderIdle ==
    /\ limit = 0
    /\ lpc = "idle"
    /\ folderIdx = 1
    /\ files = <<>>
    /\ fileIdx = 1
    /\ loaded = <<>>
    /\ emailsSeen = {}
    /\ firstSeen = <<>>
    /\ expected = <<>>

Init ==
    /\ LoaderIdle
    /\ MainIdle
    /\ EmulatorIdle
    /\ CallIdle
    /\ ServerIdle
    /\ input \in Inputs
    /\ tpc = [r \in Runs |-> "new"]
    /\ tr = [r \in Runs |-> noTransformer]
    /\ emails = [r \in Runs |-> <<>>]
    /\ contactFreq = [r \in Runs |-> <<>>]
    /\ idx = [r \in Runs |-> 1]
    /\ gmailMessages = [r \in Runs |-> <<>>]

\* NewGmailTransformer, lines 119-136; the second run starts when the first
\* has ended
NewGmailTransformer(r) ==
    /\ tpc[r] = "new"
    /\ r = 1 \/ tpc[1] = "done"
    /\ \E p \in TransformerParams :
           tr' = [tr EXCEPT ![r] =
                     [noTransformer EXCEPT !.enronUserName = p.enronUserName,
                                           !.userEmail = p.userEmail,
                                           !.timeShift = p.timeShift]]
    /\ tpc' = [tpc EXCEPT ![r] = "sort"]
    /\ UNCHANGED << input, emails, contactFreq, idx, gmailMessages >>
    /\ UNCHANGED << loaderVars, mainVars, emulatorVars, callVars, serverVars >>

\* TransformDataset, lines 328-330: the records are sorted by date
SortEmails(r) ==
    /\ tpc[r] = "sort"
    /\ \E sorted \in sortedByDate(input) :
           emails' = [emails EXCEPT ![r] = sorted]
    /\ tpc' = [tpc EXCEPT ![r] = "persona"]
    /\ UNCHANGED << input, tr, contactFreq, idx, gmailMessages >>
    /\ UNCHANGED << loaderVars, mainVars, emulatorVars, callVars, serverVars >>

\* TransformDataset, line 332: buildPersonaMap, which ends in assignPersonas
BuildPersonaMap(r) ==
    /\ tpc[r] = "persona"
    /\ LET freq == countContacts(tr[r], emails[r])
       IN  /\ contactFreq' = [contactFreq EXCEPT ![r] = freq]
           /\ \E contacts \in contactOrders(freq) :
                  tr' = [tr EXCEPT ![r].personaMap =
                            assignPersonas(tr[r], contacts)]
    /\ idx' = [idx EXCEPT ![r] = 1]
    /\ tpc' = [tpc EXCEPT ![r] = "loop"]
    /\ UNCHANGED << input, emails, gmailMessages >>
    /\ UNCHANGED << loaderVars, mainVars, emulatorVars, callVars, serverVars >>

\* one iteration of the loop as it would be if line 346 were missing: the
\* message is appended and not counted
TransformNextUncounted(r) ==
    /\ tpc[r] = "loop"
    /\ idx[r] <= Len(emails[r])
    /\ LET out == transformEmail(tr[r], emails[r][idx[r]])
       IN  /\ tr' = [tr EXCEPT
                       ![r].threadCache = out.threadCache,
                       ![r].messageIDMap = out.messageIDMap,
                       ![r].stats.TotalProcessed = @ + 1]
           /\ gmailMessages' =
                  [gmailMessages EXCEPT ![r] = Append(@, out.gmail)]
    /\ idx' = [idx EXCEPT ![r] = @ + 1]
    /\ UNCHANGED << input, tpc, emails, contactFreq >>
    /\ UNCHANGED << loaderVars, mainVars, emulatorVars, callVars, serverVars >>

\* TransformDataset, lines 336-347: one iteration of the loop. transformEmail
\* returns a nil error on every path, so the branch of lines 340-343 is
\* never taken.
TransformNext(r) ==
    /\ tpc[r] = "loop"
    /\ idx[r] <= Len(emails[r])
    /\ LET out == transformEmail(tr[r], emails[r][idx[r]])
       IN  /\ tr' = [tr EXCEPT
                       ![r].threadCache = out.threadCache,
                       ![r].messageIDMap = out.messageIDMap,
                       ![r].stats.TotalProcessed = @ + 1,
                       ![r].stats.TotalTransformed = @ + 1]
           /\ gmailMessages' =
                  [gmailMessages EXCEPT ![r] = Append(@, out.gmail)]
    /\ idx' = [idx EXCEPT ![r] = @ + 1]
    /\ UNCHANGED << input, tpc, emails, contactFreq >>
    /\ UNCHANGED << loaderVars, mainVars, emulatorVars, callVars, serverVars >>

\* TransformDataset, lines 349-352: the statistics are completed
FinishTransform(r) ==
    /\ tpc[r] = "loop"
    /\ idx[r] > Len(emails[r])
    /\ tr' = [tr EXCEPT
                ![r].stats.ThreadCount = Cardinality(DOMAIN tr[r].threadCache),
                ![r].stats.PersonaMap = tr[r].personaMap]
    /\ tpc' = [tpc EXCEPT ![r] = "done"]
    /\ UNCHANGED << input, emails, contactFreq, idx, gmailMessages >>
    /\ UNCHANGED << loaderVars, mainVars, emulatorVars, callVars, serverVars >>

Next ==
    \E r \in Runs :
        \/ NewGmailTransformer(r)
        \/ SortEmails(r)
        \/ BuildPersonaMap(r)
        \/ TransformNext(r)
        \/ FinishTransform(r)

Spec == Init /\ [][Next]_vars

(***************************************************************************)
(* The actions of the record loader.                                       *)
(***************************************************************************)
\* limitReached as it would be with > for >=
limitReachedOffByOne == Len(loaded) > limit

\* lines 162 and 189: the limit is reached
limitReached == Len(loaded) >= limit

LoaderInit ==
    /\ limit \in 0..MaxLimit
    /\ lpc = "readdir"
    /\ folderIdx = 1
    /\ files = <<>>
    /\ fileIdx = 1
    /\ loaded = <<>>
    /\ emailsSeen = {}
    /\ firstSeen = <<>>
    /\ expected = <<>>
    /\ TransformerIdle
    /\ MainIdle
    /\ EmulatorIdle
    /\ CallIdle
    /\ ServerIdle

\* line 156-159: ReadDir of a priority folder fails, the folder is skipped
ReadDirMissing ==
    /\ lpc = "readdir"
    /\ folderIdx <= Len(priorityFolders)
    /\ folderIdx' = folderIdx + 1
    /\ UNCHANGED << limit, lpc, files, fileIdx, loaded, emailsSeen, firstSeen, expected >>
    /\ UNCHANGED << transformerVars, mainVars, emulatorVars, callVars, serverVars >>

\* line 156: ReadDir of a priority folder returns a listing
ReadDirListing ==
    /\ lpc = "readdir"
    /\ folderIdx <= Len(priorityFolders)
    /\ \E l \in Listings : files' = l
    /\ fileIdx' = 1
    /\ lpc' = "files"
    /\ UNCHANGED << limit, folderIdx, loaded, emailsSeen, firstSeen, expected >>
    /\ UNCHANGED << transformerVars, mainVars, emulatorVars, callVars, serverVars >>

\* lines 161-180: one iteration of the loop over a priority folder's files
PriorityFile ==
    /\ lpc = "files"
    /\ fileIdx <= Len(files)
    /\ LET file == files[fileIdx]
           folder == priorityFolders[folderIdx]
           parsed == parseEnronFile(file)
       IN  IF limitReached
           THEN /\ lpc' = "returned"
                /\ UNCHANGED << fileIdx, loaded, emailsSeen, firstSeen, expected >>
           ELSE /\ lpc' = lpc
                /\ fileIdx' = fileIdx + 1
                /\ expected' = NoteEligible(file, folder)
                /\ IF IsDir(file) \/ parsed.err
                   THEN UNCHANGED << loaded, emailsSeen, firstSeen >>
                   ELSE /\ LoadUnlessSeen(parsed.email, folder)
                        /\ firstSeen' = NoteFirst(parsed.email, folder)
    /\ UNCHANGED << limit, folderIdx, files >>
    /\ UNCHANGED << transformerVars, mainVars, emulatorVars, callVars, serverVars >>

\* line 161: the files of the folder are exhausted, on to the next folder
PriorityFolderDone ==
    /\ lpc = "files"
    /\ fileIdx > Len(files)
    /\ folderIdx' = folderIdx + 1
    /\ lpc' = "readdir"
    /\ UNCHANGED << limit, files, fileIdx, loaded, emailsSeen, firstSeen, expected >>
    /\ UNCHANGED << transformerVars, mainVars, emulatorVars, callVars, serverVars >>

\* lines 184-186: after the priority folders, all_documents is listed when
\* records are still wanted; a ReadDir error is ignored and leaves no files
AllDocsReadDir ==
    /\ lpc = "readdir"
    /\ folderIdx > Len(priorityFolders)
    /\ IF Len(loaded) < limit
       THEN /\ \E l \in Listings : files' = l
            /\ fileIdx' = 1
            /\ lpc' = "alldocs"
       ELSE /\ lpc' = "returned"
            /\ UNCHANGED << files, fileIdx >>
    /\ UNCHANGED << limit, folderIdx, loaded, emailsSeen, firstSeen, expected >>
    /\ UNCHANGED << transformerVars, mainVars, emulatorVars, callVars, serverVars >>

\* lines 188-201: one iteration of the loop over all_documents
AllDocsFile ==
    /\ lpc = "alldocs"
    /\ fileIdx <= Len(files)
    /\ LET file == files[fileIdx]
           parsed == parseEnronFile(file)
       IN  IF limitReached
           THEN /\ lpc' = "returned"
                /\ UNCHANGED << fileIdx, loaded, emailsSeen, firstSeen, expected >>
           ELSE /\ lpc' = lpc
                /\ fileIdx' = fileIdx + 1
                /\ expected' = NoteEligible(file, all_documents)
                /\ IF AtoiOk(TrimSuffix(file.name, <<".">>)) /\ ~parsed.err
                   THEN /\ LoadUnlessSeen(parsed.email, all_documents)
                        /\ firstSeen' = NoteFirst(parsed.email, all_documents)
                   ELSE UNCHANGED << loaded, emailsSeen, firstSeen >>
    /\ UNCHANGED << limit, folderIdx, files >>
    /\ UNCHANGED << transformerVars, mainVars, emulatorVars, callVars, serverVars >>

\* lines 188, 204: the files of all_documents are exhausted
AllDocsDone ==
    /\ lpc = "alldocs"
    /\ fileIdx > Len(files)
    /\ lpc' = "returned"
    /\ UNCHANGED << limit, folderIdx, files, fileIdx, loaded, emailsSeen, firstSeen, expected >>
    /\ UNCHANGED << transformerVars, mainVars, emulatorVars, callVars, serverVars >>

LoaderNext ==
    \/ ReadDirMissing
    \/ ReadDirListing
    \/ PriorityFile
    \/ PriorityFolderDone
    \/ AllDocsReadDir
    \/ AllDocsFile
    \/ AllDocsDone

SpecLoad == LoaderInit /\ [][LoaderNext]_vars

(***************************************************************************)
(* The actions of main.                                                    *)
(***************************************************************************)
MainInit ==
    /\ enronPath \in EnronPaths
    /\ limit \in 0..MaxLimit
    /\ mpc = "start"
    /\ exitStatus = -1
    /\ artifacts = <<>>
    /\ failed = <<>>
    /\ lpc = "idle"
    /\ folderIdx = 1
    /\ files = <<>>
    /\ fileIdx = 1
    /\ loaded = <<>>
    /\ emailsSeen = {}
    /\ firstSeen = <<>>
    /\ expected = <<>>
    /\ TransformerIdle
    /\ EmulatorIdle
    /\ CallIdle
    /\ ServerIdle

\* main, lines 863-869: without --enron-path log.Fatal ends the run with
\* status 1; otherwise LoadEnronEmails is entered
MainStart ==
    /\ mpc = "start"
    /\ IF enronPath = <<>>
       THEN /\ mpc' = "exited"
            /\ exitStatus' = 1
            /\ UNCHANGED lpc
       ELSE /\ mpc' = "load"
            /\ lpc' = "readdir"
            /\ UNCHANGED exitStatus
    /\ UNCHANGED << enronPath, artifacts, failed >>
    /\ UNCHANGED << limit, folderIdx, files, fileIdx, loaded, emailsSeen,
                    firstSeen, expected >>
    /\ UNCHANGED << transformerVars, emulatorVars, callVars, serverVars >>

\* main, lines 869-876: LoadEnronEmails has returned, its error is nil, and
\* its records, each with the fields of its file, go to TransformDataset;
\* the locals of the loader are gone
MainLoaded ==
    /\ mpc = "load"
    /\ lpc = "returned"
    /\ input' = [i \in 1..Len(loaded) |->
                    [FileRecord(loaded[i].MessageID)
                        EXCEPT !.UserFolder = loaded[i].UserFolder]]
    /\ tpc' = [tpc EXCEPT ![1] = "new"]
    /\ mpc' = "transform"
    /\ lpc' = "idle"
    /\ folderIdx' = 1
    /\ files' = <<>>
    /\ fileIdx' = 1
    /\ emailsSeen' = {}
    /\ firstSeen' = <<>>
    /\ expected' = <<>>
    /\ UNCHANGED << limit, loaded >>
    /\ UNCHANGED << tr, emails, contactFreq, idx, gmailMessages >>
    /\ UNCHANGED << enronPath, exitStatus, artifacts, failed >>
    /\ UNCHANGED << emulatorVars, callVars, serverVars >>

\* main, lines 880-900, and GenerateTestData, lines 774-834:
\* TransformDataset has returned a nil error and the messages are written.
\* An operation that fails ends GenerateTestData with an error and the run
\* with status 1; an index out of range at lines 817-818 is a panic, status 2.
GenerateTestData ==
    /\ mpc = "transform"
    /\ tpc[1] = "done"
    /\ LET messages == gmailMessages[1]
           a1 == WithArtifact(artifacts, messagesFile, messages)
           a2 == WithArtifact(a1, listFile, listResponse(messages))
       IN  \E failure \in {<<>>} \cup { WriteOperations[k] : k \in 1..4 } :
               IF failure = WriteOperations[1]
               THEN /\ artifacts' = artifacts
                    /\ failed' = failure
                    /\ exitStatus' = 1
                    /\ mpc' = "exited"
               ELSE IF failure = messagesFile
               THEN /\ artifacts' = artifacts
                    /\ failed' = failure
                    /\ exitStatus' = 1
                    /\ mpc' = "exited"
               ELSE IF failure = listFile
               THEN /\ artifacts' = a1
                    /\ failed' = failure
                    /\ exitStatus' = 1
                    /\ mpc' = "exited"
               ELSE IF ~metadataIndexable(messages)
               THEN /\ artifacts' = a2
                    /\ failed' = <<>>
                    /\ exitStatus' = 2
                    /\ mpc' = "exited"
               ELSE IF failure = metaFile
               THEN /\ artifacts' = a2
                    /\ failed' = failure
                    /\ exitStatus' = 1
                    /\ mpc' = "exited"
               ELSE /\ artifacts' = WithArtifact(a2, metaFile, metadata(messages))
                    /\ failed' = <<>>
                    /\ exitStatus' = exitStatus
                    /\ mpc' = "stats"
    /\ UNCHANGED enronPath
    /\ UNCHANGED << loaderVars, transformerVars, emulatorVars, callVars, serverVars >>

\* main, lines 902-912: the statistics are written, the error of WriteFile
\* is dropped, and main returns: status 0
SaveStats ==
    /\ mpc = "stats"
    /\ \E failure \in {<<>>, statsFile} :
           /\ failed' = failure
           /\ artifacts' = IF failure = <<>>
                           THEN WithArtifact(artifacts, statsFile, tr[1].stats)
                           ELSE artifacts
    /\ exitStatus' = 0
    /\ mpc' = "exited"
    /\ UNCHANGED enronPath
    /\ UNCHANGED << loaderVars, transformerVars, emulatorVars, callVars, serverVars >>

MainNext ==
    \/ MainStart
    \/ ReadDirMissing
    \/ ReadDirListing
    \/ PriorityFile
    \/ PriorityFolderDone
    \/ AllDocsReadDir
    \/ AllDocsFile
    \/ AllDocsDone
    \/ MainLoaded
    \/ NewGmailTransformer(1)
    \/ SortEmails(1)
    \/ BuildPersonaMap(1)
    \/ TransformNext(1)
    \/ FinishTransform(1)
    \/ GenerateTestData
    \/ SaveStats

SpecMain == MainInit /\ [][MainNext]_vars

(***************************************************************************)
(* The actions of the emulator and of a client that walks the pages.       *)
(***************************************************************************)
\* NewGmailEmulator has loaded a corpus, and a client starts a walk with
\* the pageToken of its request, a second short of three days after the
\* epoch
EmulatorInit ==
    /\ messageSlice \in Corpora
    /\ now = 3 * 86400 - 1
    /\ request \in ListRequests
    /\ pageToken = request.pageToken
    /\ epc = "request"
    /\ pages = <<>>
    /\ requestLog = <<>>
    /\ LoaderIdle
    /\ TransformerIdle
    /\ MainIdle
    /\ CallIdle
    /\ ServerIdle

\* handleListMessages, lines 399-445, for the next request of the walk;
\* the client goes on with the nextPageToken of the response, and stops
\* when there is none. A slice expression out of range is a panic: the
\* server drops the connection and the walk gets no response.
handleListMessages ==
    /\ epc = "request"
    /\ LET limit0 == IF /\ request.maxResults # <<>>
                        /\ AtoiOk(request.maxResults)
                        /\ Atoi(request.maxResults) > 0
                     THEN Atoi(request.maxResults)
                     ELSE 100
           start == IF pageToken # <<>> /\ AtoiOk(pageToken)
                    THEN Atoi(pageToken) ELSE 0
           filtered == filterMessages(request.q, request.labelIds)
           end == IF start + limit0 > Len(filtered)
                  THEN Len(filtered) ELSE start + limit0
           nextPageToken == IF end < Len(filtered) THEN Itoa(end) ELSE <<>>
       IN  IF start < 0 \/ start > end
           THEN /\ epc' = "panicked"
                /\ UNCHANGED << pageToken, pages >>
           ELSE /\ pages' = Append(pages,
                                [Messages |-> Slice(filtered, start, end),
                                 NextPageToken |-> nextPageToken,
                                 ResultSizeEstimate |-> Len(filtered)])
                /\ pageToken' = nextPageToken
                /\ epc' = IF nextPageToken = <<>> THEN "done" ELSE "request"
    /\ requestLog' = Append(requestLog, [Method |-> "GET", Query |-> pageToken,
                                         Timestamp |-> now])
    /\ UNCHANGED << messageSlice, now, request >>
    /\ UNCHANGED << loaderVars, transformerVars, mainVars, callVars, serverVars >>

\* time passes between two requests of the walk
Tick ==
    /\ epc = "request"
    /\ now < 3 * 86400 - 1 + MaxTicks
    /\ now' = now + 1
    /\ UNCHANGED << messageSlice, request, pageToken, epc, pages, requestLog >>
    /\ UNCHANGED << loaderVars, transformerVars, mainVars, callVars, serverVars >>

EmulatorNext ==
    \/ handleListMessages
    \/ Tick

SpecList == EmulatorInit /\ [][EmulatorNext]_vars

(***************************************************************************)
(* One call of a function: SpecCall.                                       *)
(***************************************************************************)
CallInit ==
    /\ call \in Calls
    /\ returned = FALSE
    /\ ret = <<>>
    /\ LoaderIdle
    /\ TransformerIdle
    /\ MainIdle
    /\ EmulatorIdle
    /\ ServerIdle

\* transformEmail, lines 425-458, returns the message
transformEmailCall ==
    /\ call.fn = "transformEmail"
    /\ ~returned
    /\ ret' = transformEmail(call.t, call.enron).gmail
    /\ returned' = TRUE
    /\ UNCHANGED call
    /\ UNCHANGED << loaderVars, transformerVars, mainVars, emulatorVars, serverVars >>

\* generateSnippet, lines 642-664, returns the snippet
generateSnippetCall ==
    /\ call.fn = "generateSnippet"
    /\ ~returned
    /\ ret' = generateSnippet(call.t, call.body)
    /\ returned' = TRUE
    /\ UNCHANGED call
    /\ UNCHANGED << loaderVars, transformerVars, mainVars, emulatorVars, serverVars >>

\* parseEnronFile, lines 207-254, returns the record
parseEnronFileCall ==
    /\ call.fn = "parseEnronFile"
    /\ ~returned
    /\ ret' = parseLines(call.lines)
    /\ returned' = TRUE
    /\ UNCHANGED call
    /\ UNCHANGED << loaderVars, transformerVars, mainVars, emulatorVars, serverVars >>

CallNext ==
    \/ transformEmailCall
    \/ generateSnippetCall
    \/ parseEnronFileCall

SpecCall == CallInit /\ [][CallNext]_vars

(***************************************************************************)
(* The emulator serving connections at once: SpecServe. net/http runs the  *)
(* handler of every connection in a goroutine of its own, and the          *)
(* handlers share the emulator without a lock.                             *)
(***************************************************************************)
Connections == 1..MaxConnections

\* the routes whose handlers call logRequest: handleListUsers,
\* handleListMessages, handleGetMessage and handleBatchGet
LoggedRoutes ==
    { [Method |-> "GET", Path |-> <<"/", "d", "e", "b", "u", "g", "/", "u", "s", "e", "r", "s">>],
      [Method |-> "GET", Path |-> <<"/", "g", "m", "a", "i", "l", "/", "v", "1", "/", "u", "s", "e", "r", "s", "/", "m", "e", "/", "m", "e", "s", "s", "a", "g", "e", "s">>],
      [Method |-> "GET", Path |-> <<"/", "g", "m", "a", "i", "l", "/", "v", "1", "/", "u", "s", "e", "r", "s", "/", "m", "e", "/", "m", "e", "s", "s", "a", "g", "e", "s", "/", "a", "1">>],
      [Method |-> "POST", Path |-> <<"/", "g", "m", "a", "i", "l", "/", "v", "1", "/", "u", "s", "e", "r", "s", "/", "m", "e", "/", "m", "e", "s", "s", "a", "g", "e", "s", "/", "b", "a", "t", "c", "h", "G", "e", "t">>] }

\* a goroutine that handles no request
noRequest == [pc |-> "idle", Method |-> "", Path |-> <<>>]

ServeInit ==
    /\ hpc = [g \in Connections |-> noRequest]
    /\ sliceHeader = [g \in Connections |-> <<>>]
    /\ handled = 0
    /\ health = <<>>
    /\ EmulatorIdle
    /\ LoaderIdle
    /\ TransformerIdle
    /\ MainIdle
    /\ CallIdle

\* the router hands a request to one of the four handlers, which calls
\* logRequest first (lines 318, 400, 448, 477)
ServeHTTP(g) ==
    /\ hpc[g].pc = "idle"
    /\ handled + Cardinality({ h \in Connections : hpc[h].pc # "idle" })
           < MaxRequests
    /\ \E route \in LoggedRoutes :
           hpc' = [hpc EXCEPT ![g] = [pc |-> "logRequest",
                                      Method |-> route.Method,
                                      Path |-> route.Path]]
    /\ UNCHANGED << sliceHeader, handled, health >>
    /\ UNCHANGED << loaderVars, transformerVars, mainVars, emulatorVars, callVars >>

\* logRequest, line 655: the operand e.requestLog of append is read
logRequestRead(g) ==
    /\ hpc[g].pc = "logRequest"
    /\ sliceHeader' = [sliceHeader EXCEPT ![g] = requestLog]
    /\ hpc' = [hpc EXCEPT ![g].pc = "append"]
    /\ UNCHANGED << handled, health >>
    /\ UNCHANGED << loaderVars, transformerVars, mainVars, emulatorVars, callVars >>

\* logRequest, lines 655-660: the entry is put behind the elements read and
\* the result is stored in e.requestLog; what is left of the handler reads
\* the emulator and writes the response
logRequestAppend(g) ==
    /\ hpc[g].pc = "append"
    /\ requestLog' = Append(sliceHeader[g],
                            [Method |-> hpc[g].Method, Path |-> hpc[g].Path,
                             Timestamp |-> now])
    /\ handled' = handled + 1
    /\ hpc' = [hpc EXCEPT ![g] = noRequest]
    /\ sliceHeader' = [sliceHeader EXCEPT ![g] = <<>>]
    /\ UNCHANGED << messageSlice, now, request, pageToken, epc, pages >>
    /\ UNCHANGED health
    /\ UNCHANGED << loaderVars, transformerVars, mainVars, callVars >>

\* handleHealth, lines 679-691, on a connection of its own: the request
\* count is len(e.requestLog)
handleHealth ==
    /\ Len(health) < MaxRequests
    /\ health' = Append(health, [requests |-> Len(requestLog),
                                 handled |-> handled])
    /\ UNCHANGED << hpc, sliceHeader, handled >>
    /\ UNCHANGED << loaderVars, transformerVars, mainVars, emulatorVars, callVars >>

ServeNext ==
    \/ \E g \in Connections :
           \/ ServeHTTP(g)
           \/ logRequestRead(g)
           \/ logRequestAppend(g)
    \/ handleHealth

SpecServe == ServeInit /\ [][ServeNext]_vars





(***************************************************************************)
(* Definitions the properties below are stated with.                       *)
(***************************************************************************)
\* both runs have ended
BothDone == tpc[1] = "done" /\ tpc[2] = "done"

\* the two runs were given the same parameters
SameParameters ==
    /\ tr[1].enronUserName = tr[2].enronUserName
    /\ tr[1].userEmail = tr[2].userEmail

\* buildPersonaMap of run r has returned
PersonasAssigned(r) == tpc[r] \in {"loop", "done"}

\* the thread id of every source record transformed so far by run r
ThreadOfRecord(r) ==
    { << emails[r][i].MessageID, gmailMessages[r][i].ThreadId >> :
          i \in 1..Len(gmailMessages[r]) }

\* the address strings of one record: sender and every recipient list
AddressStrings(enron) ==
    {enron.From} \cup Range(enron.To) \cup Range(enron.CC) \cup Range(enron.BCC)

\* the correspondents of run r: the addresses of its records that do not
\* match the owner fragment
Correspondents(r) ==
    { extractEmail(a) :
        a \in { b \in UNION { AddressStrings(emails[r][i]) : i \in 1..Len(emails[r]) } :
                  /\ extractEmail(b) # <<>>
                  /\ ~Contains(extractEmail(b), tr[r].enronUserName) } }

\* how often the address occurs in the records of run r, over the sender
\* and all recipient lists
Occurrences(r, addr) ==
    LET strings(e) == <<e.From>> \o e.To \o e.CC \o e.BCC
    IN  Cardinality(
            UNION { { << i, k >> :
                        k \in { j \in 1..Len(strings(emails[r][i])) :
                                  extractEmail(strings(emails[r][i])[j]) = addr } } :
                    i \in 1..Len(emails[r]) })

\* the rank the specification gives an address: the number of addresses
\* with a higher count, or the same count and a lexically smaller address
SpecifiedRank(freq, a) ==
    Cardinality({ b \in DOMAIN freq :
                     \/ freq[b] > freq[a]
                     \/ freq[b] = freq[a] /\ LessStr(b, a) })

\* the place of a folder in the order of the scan: the priority folders,
\* then the catch-all
FolderRank(folder) ==
    IF \E k \in 1..Len(priorityFolders) : priorityFolders[k] = folder
    THEN CHOOSE k \in 1..Len(priorityFolders) : priorityFolders[k] = folder
    ELSE Len(priorityFolders) + 1

\* the loader has returned because its folders are exhausted
ScanExhausted ==
    /\ lpc = "returned"
    /\ folderIdx > Len(priorityFolders)
    /\ fileIdx > Len(files)

\* the loader is about to go past a file that fails to parse
AtUnparseableFile ==
    /\ lpc \in {"files", "alldocs"}
    /\ fileIdx <= Len(files)
    /\ ~limitReached
    /\ files[fileIdx].kind = "unopenable"

\* the orders in which the elements of a list can be put
PermutationsOf(list) ==
    LET n == Len(list)
    IN  { [i \in 1..n |-> list[p[i]]] :
            p \in { q \in [1..n -> 1..n] :
                      \A i, j \in 1..n : i # j => q[i] # q[j] } }

\* parseEnronFile is about to fail on a file of the scan
ParseFails ==
    /\ AtUnparseableFile
    /\ lpc = "alldocs" => AtoiOk(TrimSuffix(files[fileIdx].name, <<".">>))

\* the value of the Date header of an output message
DateHeader(gmail) ==
    LET headers == gmail.Payload.Headers
    IN  headers[CHOOSE k \in 1..Len(headers) : headers[k].Name = "Date"].Value

\* the messages of the pages of the walk, in the order of the walk
RECURSIVE Visited(_)
Visited(responses) ==
    IF responses = <<>> THEN <<>>
    ELSE Visited(SubSeq(responses, 1, Len(responses) - 1))
             \o responses[Len(responses)].Messages

\* the address between the angle brackets of a rewritten header entry
AddressOf(value) ==
    Slice(value, Index(value, <<"<">>) + 1, Index(value, <<">">>))

\* the body of an output message, decoded
DecodedBody(gmail) == From0(gmail.Payload.Body.Data, 1)

(***************************************************************************)
(* The properties.                                                         *)
(***************************************************************************)
\* C1 (determinism): when two runs on the same input with the same
\* parameters have ended, they have produced the same output identifier for
\* every source identifier, the same thread identifier for every record and
\* the same persona map.
C1_Determinism ==
    (BothDone /\ SameParameters) =>
        /\ tr[1].messageIDMap = tr[2].messageIDMap
        /\ ThreadOfRecord(1) = ThreadOfRecord(2)
        /\ tr[1].stats.PersonaMap = tr[2].stats.PersonaMap

\* C2 (frequency ranking with ties): once the personas are assigned, every
\* counted address holds the roster persona of its rank, the rank being by
\* descending count and, among equal counts, by ascending address; with
\* the counts {a:5, b:5, c:3} a is Sarah Chen, b David Kumar, c Alex Rivera.
C2_FrequencyRanking ==
    \A r \in Runs :
        PersonasAssigned(r) =>
            /\ \A a \in DOMAIN contactFreq[r] :
                   (SpecifiedRank(contactFreq[r], a) < Len(personas)
                        /\ a \notin Range(serviceEmails))
                   => tr[r].personaMap[a]
                          = personas[SpecifiedRank(contactFreq[r], a) + 1]
            /\ (/\ DOMAIN contactFreq[r] = {AddrA, AddrB, AddrC}
                /\ contactFreq[r][AddrA] = 5
                /\ contactFreq[r][AddrB] = 5
                /\ contactFreq[r][AddrC] = 3)
               => /\ tr[r].personaMap[AddrA] = personas[1]
                  /\ tr[r].personaMap[AddrB] = personas[2]
                  /\ tr[r].personaMap[AddrC] = personas[3]

\* C3 (persona stability): an address literal of a body is rewritten to
\* the same output address as every occurrence of that address as sender or
\* recipient (From, To, Cc) of a record of the run.
C3_PersonaStability ==
    \A r \in Runs : \A i \in 1..Len(gmailMessages[r]) :
        LET src == Split(emails[r][i].Body, " ")
            out == Split(DecodedBody(gmailMessages[r][i]), " ")
            headerStrings ==
                UNION { {emails[r][j].From} \cup Range(emails[r][j].To)
                            \cup Range(emails[r][j].CC) :
                        j \in 1..Len(emails[r]) }
        IN  \A k \in 1..Len(src) :
                MatchesEmailRegex(src[k]) =>
                    \A h \in headerStrings :
                        extractEmail(h) = ToLower(src[k]) =>
                            AddressOf(transformEmailAddress(tr[r], h)) = out[k]

\* C4 (persona map coverage): once buildPersonaMap has returned, every
\* correspondent of the records (sender, To, Cc, Bcc; not the owner) is a key
\* of the persona map and its counter is the number of its occurrences.
C4_PersonaMapCoverage ==
    \A r \in Runs :
        PersonasAssigned(r) =>
            \A a \in Correspondents(r) :
                /\ a \in DOMAIN tr[r].personaMap
                /\ a \in DOMAIN contactFreq[r]
                /\ contactFreq[r][a] = Occurrences(r, a)

\* C5 (end-to-end threading): for the owner X and the three records (1) X
\* to A and B "Budget", (2) A to X "Re: Budget", (3) C to X "Meeting notes",
\* the run ends with (1) and (2) in one thread, (3) in another, two thread
\* ids and three output ids in all.
C5_EndToEndThreading ==
    \A r \in Runs :
        (/\ tpc[r] = "done"
         /\ tr[r].enronUserName = <<"k", "a", "m">>
         /\ emails[r] = << RecBudget, RecReply, RecNotes >>)
        => LET m == gmailMessages[r]
           IN  /\ m[1].ThreadId = m[2].ThreadId
               /\ m[3].ThreadId # m[1].ThreadId
               /\ Cardinality({ m[i].ThreadId : i \in 1..3 }) = 2
               /\ Cardinality({ m[i].Id : i \in 1..3 }) = 3

\* C6 (persona map key set): when a run has ended, the keys of the persona
\* map of its statistics are exactly the correspondents of its records; for
\* the three records of C5 they are A, B and C.
C6_PersonaMapKeys ==
    \A r \in Runs :
        tpc[r] = "done" =>
            /\ DOMAIN tr[r].stats.PersonaMap = Correspondents(r)
            /\ (/\ tr[r].enronUserName = <<"k", "a", "m">>
                /\ emails[r] = << RecBudget, RecReply, RecNotes >>)
               => DOMAIN tr[r].stats.PersonaMap = {AddrA, AddrB, AddrC}

\* C7 (thread grouping): two messages of a run have the same thread id
\* exactly when their records have the same thread key, and every message
\* carries the id the thread cache holds for the key of its record, so the
\* cache never gave two ids for one key.
C7_ThreadGrouping ==
    \A r \in Runs :
        LET m == gmailMessages[r]
        IN  /\ \A i, j \in 1..Len(m) :
                   (m[i].ThreadId = m[j].ThreadId)
                       <=> (threadKey(emails[r][i]) = threadKey(emails[r][j]))
            /\ \A i \in 1..Len(m) :
                   /\ threadKey(emails[r][i]) \in DOMAIN tr[r].threadCache
                   /\ tr[r].threadCache[threadKey(emails[r][i])] = m[i].ThreadId

\* C7 witness: a run has ended with two messages in one thread and a third
\* message of the same normalized subject in another thread.
C7_Witness ==
    \E r \in Runs :
        /\ tpc[r] = "done"
        /\ \E i, j, k \in 1..Len(gmailMessages[r]) :
               /\ i # j
               /\ gmailMessages[r][i].ThreadId = gmailMessages[r][j].ThreadId
               /\ gmailMessages[r][k].ThreadId # gmailMessages[r][i].ThreadId
               /\ cleanSubjectForThreading(emails[r][k].Subject)
                      = cleanSubjectForThreading(emails[r][i].Subject)

\* C8 (output identifier purity): a source identifier has the same output
\* id in both runs, whatever their owner, persona map, time shift and
\* order of processing; the Id of every message is the one recorded for
\* its source identifier, and its Message-ID header is <Id@mail.gmail.com>.
C8_OutputIdPurity ==
    /\ \A m \in DOMAIN tr[1].messageIDMap \cap DOMAIN tr[2].messageIDMap :
           tr[1].messageIDMap[m] = tr[2].messageIDMap[m]
    /\ \A r \in Runs : \A i \in 1..Len(gmailMessages[r]) :
           LET gmail == gmailMessages[r][i]
               headers == gmail.Payload.Headers
           IN  /\ gmail.Id = tr[r].messageIDMap[emails[r][i].MessageID]
               /\ headers[Len(headers)].Name = "Message-ID"
               /\ headers[Len(headers)].Value
                      = <<"<">> \o gmail.Id \o <<"@", "m", "a", "i", "l", ".", "g", "m", "a", "i", "l", ".", "c", "o", "m", ">">>

\* C8 witness: both runs have ended with different owners, time shifts,
\* persona maps and processing orders, and transformed the same records.
C8_Witness ==
    /\ BothDone
    /\ tr[1].enronUserName # tr[2].enronUserName
    /\ tr[1].timeShift # tr[2].timeShift
    /\ tr[1].personaMap # tr[2].personaMap
    /\ emails[1] # emails[2]
    /\ Len(gmailMessages[1]) >= 2
    /\ DOMAIN tr[1].messageIDMap = DOMAIN tr[2].messageIDMap

\* C9 (loader limit): the loader never holds more than limit records, at
\* any point of the scan and when it returns; with limit 0 it holds none.
C9_LoaderLimit ==
    lpc # "idle" => Len(loaded) <= limit

\* C9 witness: the loader returned from inside a priority folder, with a
\* positive limit reached and a file of the folder left unread.
C9_Witness ==
    /\ lpc = "returned"
    /\ limit > 0
    /\ Len(loaded) = limit
    /\ folderIdx <= Len(priorityFolders)
    /\ fileIdx <= Len(files)

\* C10 (loader deduplication): no two loaded records have the same
\* Message-ID, and every loaded record carries the folder in which a file
\* with its Message-ID was first parsed.
C10_LoaderDedup ==
    /\ \A i, j \in 1..Len(loaded) :
           i # j => loaded[i].MessageID # loaded[j].MessageID
    /\ \A i \in 1..Len(loaded) :
           /\ loaded[i].MessageID \in DOMAIN firstSeen
           /\ loaded[i].UserFolder = firstSeen[loaded[i].MessageID]

\* C10 witness: in all_documents, with the limit not reached, the loader
\* has passed a readable file whose Message-ID was first parsed in
\* sent_items, and has loaded that Message-ID once.
C10_Witness ==
    /\ lpc = "alldocs"
    /\ fileIdx > 1
    /\ LET file == files[fileIdx - 1]
       IN  /\ file.kind = "file"
           /\ AtoiOk(TrimSuffix(file.name, <<".">>))
           /\ file.MessageID \in DOMAIN firstSeen
           /\ firstSeen[file.MessageID] = sent_items
           /\ Cardinality({ i \in 1..Len(loaded) :
                               loaded[i].MessageID = file.MessageID }) = 1

\* C11 (loader priority order and early stop): the folders are scanned in
\* the order sent_items, inbox, discussion_threads, personal, all_documents;
\* the records loaded are exactly the parseable, not yet seen files among
\* the entries scanned, of every folder, the catch-all included; and the
\* loader returns only with the limit reached or every folder exhausted.
C11_LoaderPriorityOrder ==
    /\ lpc = "alldocs" => folderIdx > Len(priorityFolders)
    /\ \A i, j \in 1..Len(expected) :
           i < j => FolderRank(expected[i].UserFolder)
                        <= FolderRank(expected[j].UserFolder)
    /\ loaded = expected
    /\ lpc = "returned" => (Len(loaded) = limit \/ ScanExhausted)

\* C12 (loader skips are soft): the loader has no failing outcome, it is
\* scanning or has returned its records; a missing folder and a file that
\* fails to parse leave the records, the seen Message-IDs and so the limit
\* budget as they were, and the scan goes on with the next folder or file.
C12_SoftSkips ==
    /\ [](lpc \in {"readdir", "files", "alldocs", "returned"})
    /\ [][/\ ReadDirMissing =>
                 /\ loaded' = loaded /\ emailsSeen' = emailsSeen
                 /\ lpc' = "readdir" /\ folderIdx' = folderIdx + 1
          /\ AtUnparseableFile =>
                 /\ loaded' = loaded /\ emailsSeen' = emailsSeen
                 /\ lpc' = lpc /\ fileIdx' = fileIdx + 1]_vars

\* C12 witness: the loader has returned with a positive limit reached, the
\* last record being of a file that came after one that fails to parse.
C12_Witness ==
    /\ lpc = "returned"
    /\ limit > 0
    /\ Len(loaded) = limit
    /\ \E i, j \in 1..Len(files) :
           /\ i < j /\ j < fileIdx
           /\ files[i].kind = "unopenable"
           /\ files[j].kind = "file"
           /\ loaded[limit].MessageID = files[j].MessageID
           /\ loaded[limit].UserFolder = firstSeen[files[j].MessageID]
           /\ \A k \in 1..(limit - 1) :
                  loaded[k].MessageID # files[j].MessageID

\* C17 (subject normalization, prefix in any case): a transformed record
\* whose subject is a reply or forward prefix in any letter case, a space
\* and S has the normalized subject of S.
C17_SubjectPrefixCase ==
    \A r \in Runs : \A i \in 1..Len(gmailMessages[r]) :
        \A p \in { <<"r", "e", ":">>, <<"f", "w", "d", ":">>, <<"f", "w", ":">> } :
            LET subject == emails[r][i].Subject
            IN  HasPrefix(ToLower(subject), p \o <<" ">>) =>
                    cleanSubjectForThreading(subject)
                        = cleanSubjectForThreading(From0(subject, Len(p) + 1))

\* C19 (chronological processing): nothing is transformed before the
\* records are sorted; from then on the records are those of the input in
\* non-decreasing order of date, the messages are those of the records in
\* that order, so in non-decreasing order of internalDate too, and the
\* thread cache holds exactly the keys of the records transformed so far.
C19_ChronologicalProcessing ==
    \A r \in Runs :
        /\ tpc[r] \in {"new", "sort"} => gmailMessages[r] = <<>>
        /\ tpc[r] \in {"persona", "loop", "done"} =>
               /\ emails[r] \in PermutationsOf(input)
               /\ \A i, j \in 1..Len(emails[r]) :
                      i < j => emails[r][i].Date <= emails[r][j].Date
        /\ Len(gmailMessages[r]) <= Len(emails[r])
        /\ \A i \in 1..Len(gmailMessages[r]) :
               /\ gmailMessages[r][i].Id
                      = generateGmailID(tr[r], emails[r][i].MessageID)
               /\ gmailMessages[r][i].InternalDate
                      = Itoa((emails[r][i].Date + tr[r].timeShift) * 1000)
        /\ \A i, j \in 1..Len(gmailMessages[r]) :
               i < j => emails[r][i].Date + tr[r].timeShift
                            <= emails[r][j].Date + tr[r].timeShift
        /\ DOMAIN tr[r].threadCache
               = { threadKey(emails[r][i]) : i \in 1..Len(gmailMessages[r]) }

\* C19 witness: a run has ended on three records that were not in order of
\* date in the input, two of them of one date.
C19_Witness ==
    \E r \in Runs :
        /\ tpc[r] = "done"
        /\ Len(gmailMessages[r]) = 3
        /\ \E i \in 1..(Len(input) - 1) : input[i + 1].Date < input[i].Date
        /\ emails[r] # input
        /\ \E i \in 1..(Len(emails[r]) - 1) :
               emails[r][i].Date = emails[r][i + 1].Date

\* C20 (base labels): the labels of every message start with UNREAD, hold
\* SENT exactly when the sender of the record holds the owner fragment and
\* INBOX exactly when it does not, and hold no label twice.
C20_BaseLabels ==
    \A r \in Runs : \A i \in 1..Len(gmailMessages[r]) :
        LET labels == gmailMessages[r][i].LabelIds
            sent == Contains(emails[r][i].From, tr[r].enronUserName)
        IN  /\ labels # <<>>
            /\ labels[1] = <<"U", "N", "R", "E", "A", "D">>
            /\ (<<"S", "E", "N", "T">> \in Range(labels)) <=> sent
            /\ (<<"I", "N", "B", "O", "X">> \in Range(labels)) <=> ~sent
            /\ Cardinality(Range(labels)) = Len(labels)

\* C20 witness: a run has ended with a message of the owner, filed SENT,
\* and a message received, filed INBOX with a third label.
C20_Witness ==
    \E r \in Runs :
        /\ tpc[r] = "done"
        /\ \E i, j \in 1..Len(gmailMessages[r]) :
               /\ gmailMessages[r][i].LabelIds = << <<"U", "N", "R", "E", "A", "D">>, <<"S", "E", "N", "T">> >>
               /\ Len(gmailMessages[r][j].LabelIds) = 3
               /\ gmailMessages[r][j].LabelIds[2] = <<"I", "N", "B", "O", "X">>

\* C13 (recoverable errors are recorded): when parseEnronFile fails on a
\* file and the file is skipped, the error list of the run grows by one
\* note; and the statistics artifact, once written, holds the error list
\* of the run.
C13_ErrorsRecorded ==
    /\ [][ParseFails =>
              Len(tr'[1].stats.Errors) = Len(tr[1].stats.Errors) + 1]_vars
    /\ [](statsFile \in DOMAIN artifacts =>
              artifacts[statsFile].Errors = tr[1].stats.Errors)

\* C14 (run outcome): a run that was given a source root path and in which
\* no operation of the file system failed ends with status 0, its four
\* artifacts written, whatever was loaded.
C14_RunOutcome ==
    (mpc = "exited" /\ enronPath # <<>> /\ failed = <<>>) =>
        /\ exitStatus = 0
        /\ DOMAIN artifacts = {messagesFile, listFile, metaFile, statsFile}

\* C15 (write failures are fatal): a run in which the creation of the
\* output directory or the writing of an artifact failed does not end with
\* status 0, and a run that ends with status 0 has written the four
\* artifacts.
C15_WriteFailuresFatal ==
    mpc = "exited" =>
        /\ failed # <<>> => exitStatus # 0
        /\ exitStatus = 0 =>
               DOMAIN artifacts = {messagesFile, listFile, metaFile, statsFile}

\* C18 (metadata date range): the metadata artifact holds, as start and
\* end of the date range, the values of the Date headers of the first and
\* of the last message.
C18_MetadataDateRange ==
    metaFile \in DOMAIN artifacts =>
        LET messages == gmailMessages[1]
        IN  /\ artifacts[metaFile].dateRange.start = DateHeader(messages[1])
            /\ artifacts[metaFile].dateRange.end
                   = DateHeader(messages[Len(messages)])

\* C16 (pagination walk): a walk of the list endpoint that starts without
\* pageToken never fails; no page
\* holds more than maxResults entries; every page carries as
\* resultSizeEstimate the number of matching messages; and when the walk
\* has ended it has visited every matching message once, in corpus order.
C16_PaginationWalk ==
    request.pageToken = <<>> =>
        /\ epc # "panicked"
        /\ \A k \in 1..Len(pages) :
               Len(pages[k].Messages) <= Atoi(request.maxResults)
        /\ \A i, j \in 1..Len(Visited(pages)) :
               i # j => Visited(pages)[i] # Visited(pages)[j]
        /\ epc = "done" =>
               /\ Visited(pages) = filterMessages(request.q, request.labelIds)
               /\ \A k \in 1..Len(pages) :
                      pages[k].ResultSizeEstimate
                          = Len(filterMessages(request.q, request.labelIds))


\* C25 (statistics accounting): between two iterations of the loop of
\* TransformDataset and at its end, TotalProcessed is TotalTransformed plus
\* the number of error notes and the number of messages produced is
\* TotalTransformed; at the end TotalProcessed is the number of records
\* handed in.
C25_StatsAccounting ==
    \A r \in Runs :
        LET stats == tr[r].stats
        IN  /\ tpc[r] \in {"loop", "done"} =>
                   /\ stats.TotalProcessed
                          = stats.TotalTransformed + Len(stats.Errors)
                   /\ Len(gmailMessages[r]) = stats.TotalTransformed
                   /\ stats.TotalProcessed = idx[r] - 1
            /\ tpc[r] = "done" => stats.TotalProcessed = Len(input)

\* C25 witness: the first run has ended on three records, and the second
\* stands between its first and its second iteration.
C25_Witness ==
    /\ tpc[1] = "done"
    /\ Len(input) = 3
    /\ tr[1].stats.TotalProcessed = 3
    /\ tpc[2] = "loop"
    /\ idx[2] = 2
    /\ tr[2].stats.TotalTransformed = 1

\* a call of transformEmail has returned
TransformEmailReturned == returned /\ call.fn = "transformEmail"

\* how often a label occurs in a list of labels
LabelCount(labels, label) ==
    Cardinality({ k \in 1..Len(labels) : labels[k] = label })

\* C21 (folder heuristic, first match): a message carries at most one of
\* TRASH, CATEGORY_PERSONAL, Label_Travel and Label_Meetings, the one of
\* the first rule, in the order trash or deleted, personal, travel,
\* conferences or meetings, that the folder name of the record matches; a
\* record of the folder trash/2003 carries TRASH and not CATEGORY_PERSONAL.
C21_FolderFirstMatch ==
    TransformEmailReturned =>
        LET folder == ToLower(call.enron.UserFolder)
            labels == ret.LabelIds
            n(label) == LabelCount(labels, label)
            trash == Contains(folder, <<"t", "r", "a", "s", "h">>) \/ Contains(folder, <<"d", "e", "l", "e", "t", "e", "d">>)
            private == Contains(folder, <<"p", "e", "r", "s", "o", "n", "a", "l">>)
            travel == Contains(folder, <<"t", "r", "a", "v", "e", "l">>)
            meetings == \/ Contains(folder, <<"c", "o", "n", "f", "e", "r", "e", "n", "c", "e", "s">>)
                        \/ Contains(folder, <<"m", "e", "e", "t", "i", "n", "g", "s">>)
        IN  /\ n(<<"T", "R", "A", "S", "H">>) + n(<<"C", "A", "T", "E", "G", "O", "R", "Y", "_", "P", "E", "R", "S", "O", "N", "A", "L">>) + n(<<"L", "a", "b", "e", "l", "_", "T", "r", "a", "v", "e", "l">>)
                   + n(<<"L", "a", "b", "e", "l", "_", "M", "e", "e", "t", "i", "n", "g", "s">>) <= 1
            /\ n(<<"T", "R", "A", "S", "H">>) = 1 <=> trash
            /\ n(<<"C", "A", "T", "E", "G", "O", "R", "Y", "_", "P", "E", "R", "S", "O", "N", "A", "L">>) = 1 <=> (~trash /\ private)
            /\ n(<<"L", "a", "b", "e", "l", "_", "T", "r", "a", "v", "e", "l">>) = 1 <=> (~trash /\ ~private /\ travel)
            /\ n(<<"L", "a", "b", "e", "l", "_", "M", "e", "e", "t", "i", "n", "g", "s">>) = 1
                   <=> (~trash /\ ~private /\ ~travel /\ meetings)
            /\ call.enron.UserFolder = <<"t", "r", "a", "s", "h", "/", "2", "0", "0", "3">> =>
                   n(<<"T", "R", "A", "S", "H">>) = 1 /\ n(<<"C", "A", "T", "E", "G", "O", "R", "Y", "_", "P", "E", "R", "S", "O", "N", "A", "L">>) = 0

\* C21 witness: transformEmail has returned for a record whose folder name
\* matches the rule of personal and the rule of trash; the message carries
\* TRASH and not CATEGORY_PERSONAL.
C21_Witness ==
    /\ TransformEmailReturned
    /\ call.enron.UserFolder = <<"p", "e", "r", "s", "o", "n", "a", "l", "/", "t", "r", "a", "s", "h">>
    /\ LabelCount(ret.LabelIds, <<"T", "R", "A", "S", "H">>) = 1
    /\ LabelCount(ret.LabelIds, <<"C", "A", "T", "E", "G", "O", "R", "Y", "_", "P", "E", "R", "S", "O", "N", "A", "L">>) = 0

\* C22 (category rules): a message carries CATEGORY_PROMOTIONS exactly when
\* the promotional rule matches, CATEGORY_UPDATES exactly when the
\* promotional rule does not match and the rule of automated senders does,
\* hence never both, and IMPORTANT exactly when the rule of importance
\* matches, whatever the other two rules give.
C22_CategoryRules ==
    TransformEmailReturned =>
        LET labels == ret.LabelIds
            promotions == LabelCount(labels, <<"C", "A", "T", "E", "G", "O", "R", "Y", "_", "P", "R", "O", "M", "O", "T", "I", "O", "N", "S">>)
            updates == LabelCount(labels, <<"C", "A", "T", "E", "G", "O", "R", "Y", "_", "U", "P", "D", "A", "T", "E", "S">>)
            important == LabelCount(labels, <<"I", "M", "P", "O", "R", "T", "A", "N", "T">>)
        IN  /\ promotions + updates <= 1
            /\ important <= 1
            /\ promotions = 1 <=> isPromotional(call.enron)
            /\ updates = 1 <=>
                   (~isPromotional(call.enron) /\ isAutomated(call.enron))
            /\ important = 1 <=> isImportant(call.enron)

\* C22 witness: transformEmail has returned for a record of an automated
\* sender that is important and promotional; the message carries IMPORTANT
\* and CATEGORY_PROMOTIONS and not CATEGORY_UPDATES.
C22_Witness ==
    /\ TransformEmailReturned
    /\ isAutomated(call.enron)
    /\ LabelCount(ret.LabelIds, <<"I", "M", "P", "O", "R", "T", "A", "N", "T">>) = 1
    /\ LabelCount(ret.LabelIds, <<"C", "A", "T", "E", "G", "O", "R", "Y", "_", "P", "R", "O", "M", "O", "T", "I", "O", "N", "S">>) = 1
    /\ LabelCount(ret.LabelIds, <<"C", "A", "T", "E", "G", "O", "R", "Y", "_", "U", "P", "D", "A", "T", "E", "S">>) = 0

\* C26 (owner consistency): a message is labelled SENT exactly when its
\* From header is the primary identity, You and the test address.
C26_OwnerConsistency ==
    TransformEmailReturned =>
        (LabelCount(ret.LabelIds, <<"S", "E", "N", "T">>) = 1
            <=> ret.Payload.Headers[1].Value
                    = <<"Y", "o", "u", " ", "<">> \o call.t.userEmail \o <<">">>)

\* a call of generateSnippet has returned
GenerateSnippetReturned == returned /\ call.fn = "generateSnippet"

\* the index of the first line of a body that starts with > or holds the
\* marker of an original message, 0 if there is none
FirstQuotedLine(body) ==
    LET lines == Split(body, "\n")
    IN  IF \E k \in 1..Len(lines) : isQuoted(lines[k])
        THEN CHOOSE k \in 1..Len(lines) :
                 /\ isQuoted(lines[k])
                 /\ \A j \in 1..(k - 1) : ~isQuoted(lines[j])
        ELSE 0

\* the text of a body before its first quoted line, white space collapsed
OwnText(body) ==
    LET lines == Split(body, "\n")
        upTo == IF FirstQuotedLine(body) = 0 THEN Len(lines)
                ELSE FirstQuotedLine(body) - 1
    IN  CollapseSpace(TrimSpace(Join(SubSeq(lines, 1, upTo), <<"\n">>)))

\* C23 (snippet length): a snippet has at most 100 characters; for a body
\* without quoted lines whose text, white space collapsed, has more than
\* 100 characters the snippet has 100 characters and ends in three dots;
\* for one whose collapsed text has at most 100 characters the snippet is
\* that text.
C23_SnippetLength ==
    GenerateSnippetReturned =>
        LET collapsed == CollapseSpace(TrimSpace(call.body))
            plain == FirstQuotedLine(call.body) = 0
        IN  /\ Len(ret) <= 100
            /\ (plain /\ Len(collapsed) > 100) =>
                   /\ Len(ret) = 100
                   /\ SubSeq(ret, 98, 100) = <<".", ".", ".">>
            /\ (plain /\ Len(collapsed) <= 100) => ret = collapsed

\* C24 (a snippet stops at quoted content): for a body with text of its
\* own followed on a later line by a quoted line, the snippet is the own
\* text, white space collapsed, cut at 100 characters if it is longer, and
\* holds nothing of the quoted line or of what follows it.
C24_SnippetStopsAtQuote ==
    (GenerateSnippetReturned /\ FirstQuotedLine(call.body) > 1
         /\ OwnText(call.body) # <<>>) =>
        LET own == OwnText(call.body)
        IN  /\ Len(own) < 100 => ret = own
            /\ Len(own) > 100 =>
                   /\ Len(ret) = 100
                   /\ SubSeq(ret, 1, 97) = SubSeq(own, 1, 97)

\* a call of parseEnronFile has returned
ParseEnronFileReturned == returned /\ call.fn = "parseEnronFile"

\* the header names processHeader knows
RecognizedHeaders ==
    { <<"M", "e", "s", "s", "a", "g", "e", "-", "I", "D">>, <<"D", "a", "t", "e">>, <<"F", "r", "o", "m">>, <<"T", "o">>, <<"C", "c">>, <<"B", "c", "c">>, <<"S", "u", "b", "j", "e", "c", "t">>,
      <<"X", "-", "F", "r", "o", "m">>, <<"X", "-", "T", "o">>, <<"X", "-", "c", "c">>, <<"X", "-", "b", "c", "c">>, <<"X", "-", "F", "o", "l", "d", "e", "r">>, <<"X", "-", "O", "r", "i", "g", "i", "n">>,
      <<"X", "-", "F", "i", "l", "e", "N", "a", "m", "e">> }

\* the number of lines of a file before its first empty line
HeaderRegion(lines) ==
    IF \E k \in 1..Len(lines) : lines[k] = <<>>
    THEN (CHOOSE k \in 1..Len(lines) :
              /\ lines[k] = <<>>
              /\ \A j \in 1..(k - 1) : lines[j] # <<>>) - 1
    ELSE Len(lines)

\* the header name of a line that starts a header, empty for other lines
HeaderName(line) ==
    IF ~HasPrefix(line, <<" ">>) /\ ~HasPrefix(line, <<"\t">>) /\ Contains(line, <<":">>)
    THEN TrimSpace(Slice(line, 0, Index(line, <<":">>)))
    ELSE <<>>

\* C28 (headers are flushed at the end of input): every line of the header
\* region that starts a recognized header is applied to the record once,
\* also the last header of a file that ends without an empty line and a
\* header that follows a line without a colon.
C28_HeaderFlush ==
    ParseEnronFileReturned =>
        \A k \in 1..HeaderRegion(call.lines) :
            HeaderName(call.lines[k]) \in RecognizedHeaders =>
                Cardinality({ a \in 1..Len(ret.applied) :
                                ret.applied[a].header
                                    = HeaderName(call.lines[k]) }) = 1

\* C27 (folder labels in a full run): after load and transform, the message
\* of a record whose file names a source folder, in its X-Folder header,
\* that matches trash or deleted carries TRASH, one that matches travel
\* carries Label_Travel, and one that matches conferences or meetings
\* carries Label_Meetings.
C27_FolderLabelsReachable ==
    mpc # "idle" =>
        \A i \in 1..Len(gmailMessages[1]) :
            LET folder == ToLower(emails[1][i].XFolder)
                labels == gmailMessages[1][i].LabelIds
                trash == Contains(folder, <<"t", "r", "a", "s", "h">>) \/ Contains(folder, <<"d", "e", "l", "e", "t", "e", "d">>)
                travel == Contains(folder, <<"t", "r", "a", "v", "e", "l">>)
                meetings == \/ Contains(folder, <<"c", "o", "n", "f", "e", "r", "e", "n", "c", "e", "s">>)
                            \/ Contains(folder, <<"m", "e", "e", "t", "i", "n", "g", "s">>)
            IN  /\ trash => LabelCount(labels, <<"T", "R", "A", "S", "H">>) = 1
                /\ (~trash /\ travel) => LabelCount(labels, <<"L", "a", "b", "e", "l", "_", "T", "r", "a", "v", "e", "l">>) = 1
                /\ (~trash /\ ~travel /\ meetings) =>
                       LabelCount(labels, <<"L", "a", "b", "e", "l", "_", "M", "e", "e", "t", "i", "n", "g", "s">>) = 1

\* C29 (pagination bounds): whatever the pageToken of a request, negative
\* or beyond the matching messages, and whatever maxResults,
\* handleListMessages does not fail and answers with a page, possibly
\* empty, of at most maxResults of the matching messages.
C29_PaginationBounds ==
    /\ epc # "panicked"
    /\ \A k \in 1..Len(pages) :
           /\ Len(pages[k].Messages) <= pages[k].ResultSizeEstimate
           /\ Len(pages[k].Messages) <= Atoi(request.maxResults)

\* C30 (request log under concurrency): every request handled has one
\* entry in requestLog, none is lost, and every count handleHealth has
\* reported is the number of requests handled until then.
C30_RequestLogComplete ==
    /\ Len(requestLog) = handled
    /\ \A k \in 1..Len(health) : health[k].requests = health[k].handled

====
